---- MODULE Spec2Model ----
(***************************************************************************)
(* Time Block Resolution Engine of the mission42 timesheet service:        *)
(* work-week calendar, event normalisation, overlap resolution, activity   *)
(* grouping, auto-fill, the week-processing pipeline and the job scheduler.*)
(*                                                                         *)
(* A datetime is a record [m, us]: whole minutes since an epoch that is a  *)
(* Monday 00:00, and the microseconds inside that minute.  Python's        *)
(* datetime and timedelta have a resolution of one microsecond, which the  *)
(* us field keeps; a week of microseconds does not fit one machine integer *)
(* of the checker, hence the two fields.  A timedelta has the same shape.  *)
(* Float hours (hours_to_fill, total_hours) are kept as exact timedeltas:  *)
(* the float64 error of the code's sums is far below one microsecond and   *)
(* timedelta(hours=...) rounds it away.                                    *)
(***************************************************************************)
EXTENDS Integers, Sequences, FiniteSets, TLC

VARIABLES
    pc,             \* position of the call / of process_week
    settings,       \* the settings snapshot read by the call
    reference_date, \* process_week's reference_date / get_work_week_start's argument
    raw_store,      \* raw_events collection of the store (timestamp ascending)
    raw_events,     \* list handed to convert_to_time_blocks
    arg_blocks,     \* block list handed to the function under call
    time_blocks,    \* block list returned / process_week's local time_blocks
    week_start,     \* week window start
    week_end,       \* week window end
    hours_filled,   \* second component of auto_fill_to_target's result
    block_store,    \* time_blocks collection of the store
    summary_store,  \* week_summaries collection of the store
    before_store,   \* the two collections as they were when process_week was entered
    result,         \* ProcessingResult returned by process_week
    save_index,     \* number of blocks save_time_blocks has written in this run
    run_count,      \* number of process_week calls entered so far
    job_locks,      \* JobLock._locks: job name -> TRUE when the Lock is held
    invocations,    \* scheduler job invocations: id -> [job, pc]
    arg_minutes,    \* round_to_half_hour's minutes argument
    ret_half_hours, \* round_to_half_hour's result, in half hours
    summary_calls,  \* get_or_create_week_summary calls: id -> [week_start, total_hours, pc, ...]
    lock_table,     \* JobLock._locks as threads see it: job name -> Lock object id
    lock_objects,   \* the Lock objects created so far: id -> TRUE when held
    acquire_calls   \* JobLock.acquire calls of threads: id -> [job, pc, lock, returned]

storeVars == <<raw_store, block_store, summary_store, before_store, result,
               save_index, run_count>>

schedulerVars == <<job_locks, invocations>>

roundVars == <<arg_minutes, ret_half_hours>>

clientVars == <<summary_calls>>

threadVars == <<lock_table, lock_objects, acquire_calls>>

vars == <<pc, settings, reference_date, raw_events, arg_blocks, time_blocks,
          week_start, week_end, hours_filled, storeVars, schedulerVars, roundVars,
          clientVars, threadVars>>

----------------------------------------------------------------------------
(* Bounds of the model *)

MaxBlocks == 3

(* datetime arithmetic *)

UsPerSecond == 1000 * 1000
UsPerMinute == 60 * UsPerSecond
MinutesPerHour == 60
MinutesPerDay == 24 * 60
None == [none |-> TRUE]

Dt(minutes) == [m |-> minutes, us |-> 0]

DtLt(a, b) == a.m < b.m \/ (a.m = b.m /\ a.us < b.us)

DtLe(a, b) == a = b \/ DtLt(a, b)

\* timedelta normalisation: 0 <= us < one minute
TdNorm(minutes, micros) ==
    [m |-> minutes + (micros \div UsPerMinute), us |-> micros % UsPerMinute]

DtAdd(a, d) == TdNorm(a.m + d.m, a.us + d.us)

DtSub(a, b) == TdNorm(a.m - b.m, a.us - b.us)

TdZero == [m |-> 0, us |-> 0]

TdMinutes(minutes) == [m |-> minutes, us |-> 0]

TdIsPositive(d) == d.m > 0 \/ (d.m = 0 /\ d.us > 0)

----------------------------------------------------------------------------
(* priority.py *)

SOURCE_PRIORITIES ==
    [wakatime |-> 100, calendar |-> 80, gmail |-> 60, github |-> 40,
     cloud_events |-> 40, auto_fill |-> 0]

KnownSources == DOMAIN SOURCE_PRIORITIES

\* raises ValueError on a source outside the table: callers test KnownSources first
get_source_priority(source) == SOURCE_PRIORITIES[source]

TimeBlock(start, end, source, description) ==
    [start |-> start, end |-> end, source |-> source, description |-> description]

Priority(b) == get_source_priority(b.source)

times_overlap(start1, end1, start2, end2) == DtLt(start1, end2) /\ DtLt(start2, end1)

overlaps_with(b, other) == times_overlap(b.start, b.end, other.start, other.end)

Duration(b) == DtSub(b.end, b.start)

\* sort keys of resolve_overlaps: (start, -priority) and start alone
KeyLessStartOnly(key, a, b) == DtLt(a.start, b.start)

KeyLess(key, a, b) ==
    IF key = "start_priority"
    THEN DtLt(a.start, b.start) \/ (a.start = b.start /\ Priority(a) > Priority(b))
    ELSE DtLt(a.start, b.start)

\* position of x in an already sorted list: after every element not greater (stable)
RECURSIVE InsertPos(_, _, _, _)
InsertPos(key, x, s, i) ==
    IF i > Len(s) THEN i
    ELSE IF KeyLess(key, x, s[i]) THEN i
    ELSE InsertPos(key, x, s, i + 1)

InsertAt(s, i, x) == SubSeq(s, 1, i - 1) \o <<x>> \o SubSeq(s, i, Len(s))

RemoveAt(s, i) == SubSeq(s, 1, i - 1) \o SubSeq(s, i + 1, Len(s))

\* Python's sorted(): a stable sort
RECURSIVE SortedFrom(_, _, _, _)
SortedFrom(key, s, i, acc) ==
    IF i > Len(s) THEN acc
    ELSE SortedFrom(key, s, i + 1, InsertAt(acc, InsertPos(key, s[i], acc, 1), s[i]))

SortedAsGiven(key, s) == s

Sorted(key, s) == SortedFrom(key, s, 1, <<>>)

\* index of the first block of result that overlaps block, 0 when none does
RECURSIVE FirstOverlap(_, _, _)
FirstOverlap(block, res, i) ==
    IF i > Len(res) THEN 0
    ELSE IF overlaps_with(block, res[i]) THEN i
    ELSE FirstOverlap(block, res, i + 1)

\* one iteration of the "priority" loop
PriorityStepKeepFirst(res, block) ==
    LET i == FirstOverlap(block, res, 1) IN
    IF i = 0 THEN Append(res, block)
    ELSE IF Priority(block) > Priority(res[i]) THEN Append(res, block)
    ELSE res

\* the loop if a candidate displaced an accepted block of equal priority too
PriorityStepReplaceOnTie(res, block) ==
    LET i == FirstOverlap(block, res, 1) IN
    IF i = 0 THEN Append(res, block)
    ELSE IF Priority(block) >= Priority(res[i]) THEN Append(RemoveAt(res, i), block)
    ELSE res

\* the loop if a candidate that overlaps an accepted block were always discarded
PriorityStepNeverReplace(res, block) ==
    LET i == FirstOverlap(block, res, 1) IN
    IF i = 0 THEN Append(res, block) ELSE res

PriorityStep(res, block) ==
    LET i == FirstOverlap(block, res, 1) IN
    IF i = 0 THEN Append(res, block)
    ELSE IF Priority(block) > Priority(res[i]) THEN Append(RemoveAt(res, i), block)
    ELSE res

RECURSIVE PriorityScan(_, _, _)
PriorityScan(sorted_blocks, i, res) ==
    IF i > Len(sorted_blocks) THEN res
    ELSE PriorityScan(sorted_blocks, i + 1, PriorityStep(res, sorted_blocks[i]))

\* heads the merged block: max(blocks, key=priority), the first of the maxima
RECURSIVE HighestPriorityFrom(_, _, _)
HighestPriorityFrom(blocks, i, best) ==
    IF i > Len(blocks) THEN best
    ELSE HighestPriorityFrom(blocks, i + 1,
             IF Priority(blocks[i]) > Priority(best) THEN blocks[i] ELSE best)

RECURSIVE MinStart(_, _, _)
MinStart(blocks, i, best) ==
    IF i > Len(blocks) THEN best
    ELSE MinStart(blocks, i + 1, IF DtLt(blocks[i].start, best) THEN blocks[i].start ELSE best)

RECURSIVE MaxEnd(_, _, _)
MaxEnd(blocks, i, best) ==
    IF i > Len(blocks) THEN best
    ELSE MaxEnd(blocks, i + 1, IF DtLt(best, blocks[i].end) THEN blocks[i].end ELSE best)

\* A description is a string, kept as the list of its pieces; f"{source}: {description}"
\* joined with " | " is the concatenation of the pieces.
RECURSIVE JoinDescriptions(_, _)
JoinDescriptions(blocks, i) ==
    IF i > Len(blocks) THEN <<>>
    ELSE (IF i = 1 THEN <<>> ELSE <<" | ">>)
         \o <<blocks[i].source, ": ">> \o blocks[i].description
         \o JoinDescriptions(blocks, i + 1)

merge_blocks(blocks) ==
    IF Len(blocks) = 1 THEN blocks[1]
    ELSE TimeBlock(MinStart(blocks, 2, blocks[1].start),
                   MaxEnd(blocks, 2, blocks[1].end),
                   HighestPriorityFrom(blocks, 2, blocks[1]).source,
                   JoinDescriptions(blocks, 1))

RECURSIVE CombineScan(_, _, _, _)
CombineScan(sorted_blocks, i, current_group, res) ==
    IF i > Len(sorted_blocks) THEN Append(res, merge_blocks(current_group))
    ELSE IF \E k \in 1..Len(current_group) : overlaps_with(sorted_blocks[i], current_group[k])
    THEN CombineScan(sorted_blocks, i + 1, Append(current_group, sorted_blocks[i]), res)
    ELSE CombineScan(sorted_blocks, i + 1, <<sorted_blocks[i]>>,
                     Append(res, merge_blocks(current_group)))

resolve_overlaps(blocks, strategy) ==
    IF blocks = <<>> THEN <<>>
    ELSE LET sorted_blocks == Sorted("start_priority", blocks) IN
         CASE strategy = "show_both" -> sorted_blocks
           [] strategy = "priority" ->
                Sorted("start", PriorityScan(sorted_blocks, 1, <<>>))
           [] strategy = "combine" ->
                CombineScan(sorted_blocks, 2, <<sorted_blocks[1]>>, <<>>)

----------------------------------------------------------------------------
(* time_utils.py: the work week *)

DaysPerWeek == 7

day_map ==
    [monday |-> 0, tuesday |-> 1, wednesday |-> 2, thursday |-> 3, friday |-> 4,
     saturday |-> 5, sunday |-> 6]

\* datetime.weekday(): 0 = Monday; the epoch is a Monday 00:00
Weekday(dt) == (dt.m \div MinutesPerDay) % DaysPerWeek

\* hour * 60 + minute of a datetime: seconds and microseconds are not read
MinuteOfDay(dt) == dt.m % MinutesPerDay

\* a "HH:MM" string, kept as the pair it parses to
TimeMinutes(hhmm) == hhmm[1] * MinutesPerHour + hhmm[2]

\* lines 73-84 of get_work_week_start
DaysBackNeverAWeek(reference, start_weekday, start_time_minutes) ==
    IF Weekday(reference) >= start_weekday
    THEN Weekday(reference) - start_weekday
    ELSE DaysPerWeek - (start_weekday - Weekday(reference))

DaysBack(reference, start_weekday, start_time_minutes) ==
    LET days_back ==
            IF Weekday(reference) >= start_weekday
            THEN Weekday(reference) - start_weekday
            ELSE DaysPerWeek - (start_weekday - Weekday(reference))
    IN  IF days_back = 0 /\ MinuteOfDay(reference) < start_time_minutes
        THEN DaysPerWeek
        ELSE days_back

\* datetime.replace(hour=h, minute=mi, second=0, microsecond=0)
ReplaceTimeExact(dt, h, mi) ==
    Dt((dt.m \div MinutesPerDay) * MinutesPerDay + h * MinutesPerHour + mi)

get_work_week_start(reference, start_day, start_time) ==
    LET days_back == DaysBack(reference, day_map[start_day], TimeMinutes(start_time))
        shifted == DtSub(reference, TdMinutes(days_back * MinutesPerDay))
    IN  ReplaceTimeExact(shifted, start_time[1], start_time[2])

\* lines 127-132 of get_work_week_end
DaysForwardSameDayZero(start_weekday, end_weekday) ==
    IF end_weekday >= start_weekday
    THEN end_weekday - start_weekday
    ELSE DaysPerWeek - start_weekday + end_weekday

DaysForward(start_weekday, end_weekday) ==
    IF end_weekday > start_weekday
    THEN end_weekday - start_weekday
    ELSE DaysPerWeek - start_weekday + end_weekday

get_work_week_end(start, end_day, end_time) ==
    LET days_forward == DaysForward(Weekday(start), day_map[end_day])
        shifted == DtAdd(start, TdMinutes(days_forward * MinutesPerDay))
    IN  ReplaceTimeExact(shifted, end_time[1], end_time[2])

----------------------------------------------------------------------------
(* time_utils.py: rounding *)

HalfHourMinutes == 30

\* math.ceil(hours * 2): the number of half hours, rounded up
CeilHalfHours(minutes) == -((-minutes) \div HalfHourMinutes)

\* round(hours * 2): Python 3 rounds a tie to the even neighbour.  minutes / 60.0 * 2 is
\* exact at a tie (an odd multiple of 15 minutes is a multiple of 1/4 hour)
RoundHalfHoursTiesUp(minutes) ==
    LET q == minutes \div HalfHourMinutes
        r == minutes % HalfHourMinutes
    IN  IF 2 * r < HalfHourMinutes THEN q ELSE q + 1

RoundHalfHours(minutes) ==
    LET q == minutes \div HalfHourMinutes
        r == minutes % HalfHourMinutes
    IN  IF 2 * r < HalfHourMinutes THEN q
        ELSE IF 2 * r > HalfHourMinutes THEN q + 1
        ELSE IF q % 2 = 0 THEN q ELSE q + 1

\* the result in half hours: the returned float is this number times 0.5
round_to_half_hour(minutes, mode) ==
    IF mode = "up" THEN CeilHalfHours(minutes) ELSE RoundHalfHours(minutes)

\* timedelta(hours=rounded_hours)
TdHalfHours(k) == TdMinutes(k * HalfHourMinutes)

----------------------------------------------------------------------------
(* time_block_processor.py: convert_to_time_blocks *)

\* A raw event's timestamp field: a datetime object, a string holding "T" (read by
\* fromisoformat), a string without "T" (read by strptime), or something else (None,
\* a number).  wellformed says whether the string parses; value is what it parses to.
Timestamp(kind, wellformed, value) ==
    [kind |-> kind, wellformed |-> wellformed, value |-> value]

RawEvent(source, timestamp, duration_minutes, description) ==
    [source |-> source, timestamp |-> timestamp,
     duration_minutes |-> duration_minutes, description |-> description]

\* lines 131-142: FALSE when the event is dropped by a `continue`
TimestampParses(ts) ==
    CASE ts.kind = "datetime" -> TRUE
      [] ts.kind \in {"iso_string", "plain_string"} -> ts.wellformed
      [] OTHER -> FALSE

\* lines 131-146: the two `continue` branches
SkipsEventZeroOnly(event) ==
    ~TimestampParses(event.timestamp) \/ event.duration_minutes = 0

SkipsEventOrUnknown(event) ==
    \/ ~TimestampParses(event.timestamp)
    \/ event.duration_minutes <= 0
    \/ event.source \notin KnownSources

SkipsEvent(event) ==
    ~TimestampParses(event.timestamp) \/ event.duration_minutes <= 0

\* lines 148-173: the block of an event that is not skipped
EventBlock(event, s) ==
    LET start == event.timestamp.value
        rounded == round_to_half_hour(event.duration_minutes, s.rounding_mode)
    IN  TimeBlock(start, DtAdd(start, TdHalfHours(rounded)), event.source, event.description)

\* The loop.  TimeBlock's constructor looks the priority up and raises ValueError on an
\* unknown source; nothing catches it here.
RECURSIVE ConvertFrom(_, _, _, _)
ConvertFrom(events, s, i, blocks) ==
    IF i > Len(events) THEN [raised |-> FALSE, blocks |-> blocks]
    ELSE IF SkipsEvent(events[i]) THEN ConvertFrom(events, s, i + 1, blocks)
    ELSE IF events[i].source \notin KnownSources THEN [raised |-> TRUE, blocks |-> <<>>]
    ELSE ConvertFrom(events, s, i + 1, Append(blocks, EventBlock(events[i], s)))

convert_to_time_blocks(events, s) == ConvertFrom(events, s, 1, <<>>)

----------------------------------------------------------------------------
(* models/settings.py: the settings the engine reads *)

DefaultSettings ==
    [rounding_mode |-> "up", overlap_handling |-> "priority",
     group_same_activities |-> TRUE, auto_fill_enabled |-> TRUE,
     target_hours_per_week |-> 40, fill_up_topic_mode |-> "manual",
     fill_up_default_topic |-> <<"General">>, fill_up_distribution |-> "end_of_week",
     work_week_start_day |-> "monday", work_week_start_time |-> <<18, 0>>,
     work_week_end_day |-> "saturday", work_week_end_time |-> <<18, 0>>]

OverlapHandling == {"priority", "show_both", "combine"}

\* resolve_overlapping_blocks: the enum is mapped onto resolve_overlaps' strategy names
resolve_overlapping_blocks(blocks, s) ==
    resolve_overlaps(blocks,
        IF s.overlap_handling \in OverlapHandling THEN s.overlap_handling ELSE "priority")

----------------------------------------------------------------------------
(* time_block_processor.py: calculate_week_hours and the auto-fill engine *)

\* total_hours as an exact timedelta (the code sums float hours)
RECURSIVE SumDurations(_, _)
SumDurations(blocks, i) ==
    IF i > Len(blocks) THEN TdZero
    ELSE LET d == Duration(blocks[i])
             rest == SumDurations(blocks, i + 1)
         IN  TdNorm(d.m + rest.m, d.us + rest.us)

calculate_week_hours(blocks) == SumDurations(blocks, 1)

TargetHours(s) == TdMinutes(s.target_hours_per_week * MinutesPerHour)

\* lines 298-308 of auto_fill_to_target: the two early returns
NeedsNoFillAboveOnly(blocks, s) ==
    \/ ~s.auto_fill_enabled
    \/ DtLt(TargetHours(s), calculate_week_hours(blocks))

NeedsNoFill(blocks, s) ==
    \/ ~s.auto_fill_enabled
    \/ DtLe(TargetHours(s), calculate_week_hours(blocks))

\* the summed duration of the blocks that carry description d
RECURSIVE DescriptionHours(_, _, _)
DescriptionHours(blocks, d, i) ==
    IF i > Len(blocks) THEN TdZero
    ELSE LET rest == DescriptionHours(blocks, d, i + 1)
             own == IF blocks[i].description = d THEN Duration(blocks[i]) ELSE TdZero
         IN  TdNorm(own.m + rest.m, own.us + rest.us)

\* max(description_counts.items(), key=hours): the first maximum in insertion order
MostFrequentDescription(blocks) ==
    LET hours(i) == DescriptionHours(blocks, blocks[i].description, 1)
        best == CHOOSE i \in 1..Len(blocks) :
                    /\ \A j \in 1..Len(blocks) : DtLe(hours(j), hours(i))
                    /\ \A j \in 1..(i - 1) : DtLt(hours(j), hours(i))
    IN  blocks[best].description

determine_fill_up_topic(blocks, s) ==
    CASE s.fill_up_topic_mode = "manual" -> s.fill_up_default_topic
      [] s.fill_up_topic_mode = "auto" ->
            IF blocks = <<>> THEN s.fill_up_default_topic
            ELSE MostFrequentDescription(blocks)
      [] OTHER -> s.fill_up_default_topic

\* datetime.replace(hour=h, minute=mi, second=0): the microsecond field is kept
ReplaceTimeKeepsTime(dt, h, mi) == dt

ReplaceTime(dt, h, mi) ==
    [m |-> (dt.m \div MinutesPerDay) * MinutesPerDay + h * MinutesPerHour + mi,
     us |-> dt.us % UsPerSecond]

\* timedelta(hours=hours_to_fill / n): the quotient rounded to a whole microsecond,
\* a tie to the even neighbour
TdDivide(d, n) ==
    LET rest == (d.m % n) * UsPerMinute + d.us
        q == rest \div n
        r == rest % n
        micros == IF 2 * r < n THEN q
                  ELSE IF 2 * r > n THEN q + 1
                  ELSE IF q % 2 = 0 THEN q ELSE q + 1
    IN  TdNorm(d.m \div n, micros)

\* lines 415-419: the days of [week_start, week_end), one day apart
RECURSIVE WorkDays(_, _)
WorkDays(current_day, end) ==
    IF DtLt(current_day, end)
    THEN <<current_day>> \o WorkDays(DtAdd(current_day, TdMinutes(MinutesPerDay)), end)
    ELSE <<>>

FillDescription(topic) == <<"Development: ">> \o topic

\* _create_fill_up_blocks.  With no day in the window, "distributed" divides by zero.
create_fill_up_blocks(hours_to_fill, start, end, topic, s) ==
    CASE s.fill_up_distribution = "end_of_week" ->
            LET saturday == DtSub(end, TdMinutes(6 * MinutesPerHour))
                fill_start == ReplaceTime(saturday, 12, 0)
            IN  <<TimeBlock(fill_start, DtAdd(fill_start, hours_to_fill),
                            "auto_fill", FillDescription(topic))>>
      [] s.fill_up_distribution = "distributed" ->
            LET work_days == WorkDays(start, end)
                hours_per_day == TdDivide(hours_to_fill, Len(work_days))
            IN  [i \in 1..Len(work_days) |->
                    LET fill_start == ReplaceTime(work_days[i], 17, 0) IN
                    TimeBlock(fill_start, DtAdd(fill_start, hours_per_day),
                              "auto_fill", FillDescription(topic))]
      [] OTHER ->
            <<TimeBlock(DtSub(end, hours_to_fill), end, "auto_fill", FillDescription(topic))>>

\* auto_fill_to_target: (updated blocks, hours filled)
auto_fill_to_target(blocks, start, end, s) ==
    IF NeedsNoFill(blocks, s) THEN [blocks |-> blocks, hours_filled |-> TdZero]
    ELSE LET hours_to_fill == DtSub(TargetHours(s), calculate_week_hours(blocks))
             topic == determine_fill_up_topic(blocks, s)
         IN  [blocks |-> blocks \o create_fill_up_blocks(hours_to_fill, start, end, topic, s),
              hours_filled |-> hours_to_fill]

----------------------------------------------------------------------------
(* time_block_processor.py: group_activities *)

\* (date of start, source, description)
GroupKey(b) == <<b.start.m \div MinutesPerDay, b.source, b.description>>

SameGroup(blocks, i) == SelectSeq(blocks, LAMBDA b : GroupKey(b) = GroupKey(blocks[i]))

\* lines 233-258: a group of one passes through, a larger one becomes one block
MergeGroupSpan(members) ==
    IF Len(members) = 1 THEN members[1]
    ELSE TimeBlock(MinStart(members, 2, members[1].start),
                   MaxEnd(members, 2, members[1].end),
                   members[1].source, members[1].description)

MergeGroup(members) ==
    IF Len(members) = 1 THEN members[1]
    ELSE LET earliest_start == MinStart(members, 2, members[1].start) IN
         TimeBlock(earliest_start, DtAdd(earliest_start, SumDurations(members, 1)),
                   members[1].source, members[1].description)

\* grouped.values(): the groups in the order their first member was met
RECURSIVE GroupsFrom(_, _)
GroupsFrom(blocks, i) ==
    IF i > Len(blocks) THEN <<>>
    ELSE IF \E j \in 1..(i - 1) : GroupKey(blocks[j]) = GroupKey(blocks[i])
    THEN GroupsFrom(blocks, i + 1)
    ELSE <<MergeGroup(SameGroup(blocks, i))>> \o GroupsFrom(blocks, i + 1)

group_activities(blocks, s) ==
    IF ~s.group_same_activities THEN blocks
    ELSE Sorted("start", GroupsFrom(blocks, 1))

----------------------------------------------------------------------------
(* time_block_processor.py: process_week, and the collections it reads and writes *)

\* datetime.isoformat(): the text of a datetime, one text per datetime
IsoFormat(dt) == <<"iso", dt.m, dt.us>>

\* get_raw_events_for_week: the events of the window, timestamp ascending (raw_store
\* is kept in that order)
InWindow(event, start, end) ==
    DtLe(start, event.timestamp.value) /\ DtLe(event.timestamp.value, end)

fetch_raw_events_for_week(start, end) ==
    SelectSeq(raw_store, LAMBDA e : InWindow(e, start, end))

\* create_time_block: the record of one block
BlockRecord(block, start) ==
    [week_start |-> IsoFormat(start), block_start |-> IsoFormat(block.start),
     block_end |-> IsoFormat(block.end), source |-> block.source,
     description |-> block.description, duration_hours |-> Duration(block)]

\* update_week_summary's metadata
SummaryMetadata(start, end, filled) ==
    [week_start |-> IsoFormat(start), week_end |-> IsoFormat(end), hours_filled |-> filled]

\* a set of events as the list the store returns: timestamp ascending
RECURSIVE AscendingList(_)
AscendingList(S) ==
    IF S = {} THEN <<>>
    ELSE LET e == CHOOSE x \in S :
                     \A y \in S : DtLe(x.timestamp.value, y.timestamp.value)
         IN  <<e>> \o AscendingList(S \ {e})

\* get_or_create_week_summary: update the first record of the week, or create one
RECURSIVE FirstSummary(_, _, _)
FirstSummary(summaries, iso, i) ==
    IF i > Len(summaries) THEN 0
    ELSE IF summaries[i].week_start = iso THEN i
    ELSE FirstSummary(summaries, iso, i + 1)

get_or_create_week_summary(summaries, start, total, metadata) ==
    LET i == FirstSummary(summaries, IsoFormat(start), 1) IN
    IF i # 0
    THEN [summaries EXCEPT ![i].total_hours = total, ![i].metadata = metadata]
    ELSE Append(summaries,
                [week_start |-> IsoFormat(start), total_hours |-> total, metadata |-> metadata])

\* str(e) of the exceptions the steps raise
ErrUnknownSource == [message |-> <<"Unknown source: ", "unknown">>]
ErrSettings == [message |-> <<"settings not available">>]
ErrFetch == [message |-> <<"raw_events request failed">>]
ErrCreate == [message |-> <<"time_blocks create failed">>]
ErrSummary == [message |-> <<"week_summaries request failed">>]

\* line 595: ProcessingResult(success=False, error=str(e))
FailureResultKeepsWeek(error) ==
    [success |-> FALSE, week_start |-> week_start, week_end |-> week_end,
     raw_events_count |-> Len(raw_events), time_blocks_created |-> save_index,
     total_hours |-> TdZero, hours_filled |-> TdZero, error |-> error]

FailureResult(error) ==
    [success |-> FALSE, week_start |-> None, week_end |-> None,
     raw_events_count |-> 0, time_blocks_created |-> 0,
     total_hours |-> TdZero, hours_filled |-> TdZero, error |-> error]

\* lines 584-592
SuccessResult(start, end, events, saved, total, filled) ==
    [success |-> TRUE, week_start |-> start, week_end |-> end,
     raw_events_count |-> Len(events), time_blocks_created |-> saved,
     total_hours |-> total, hours_filled |-> filled, error |-> None]

MaxRuns == 2

InMemorySteps == {"settings", "week", "fetch", "convert", "resolve", "group", "autofill"}

\* the except clause: the exception ends the run as a failure result
Caught(error) ==
    /\ pc' = "failed"
    /\ result' = FailureResult(error)

\* process_week is called (by a job or a manual trigger); its locals are fresh
Enter ==
    /\ pc \in {"idle", "done", "failed"}
    /\ run_count < MaxRuns
    /\ pc' = "settings"
    /\ run_count' = run_count + 1
    /\ before_store' = [blocks |-> block_store, summaries |-> summary_store]
    /\ result' = None
    /\ raw_events' = <<>>
    /\ time_blocks' = <<>>
    /\ week_start' = None
    /\ week_end' = None
    /\ hours_filled' = None
    /\ save_index' = 0
    /\ UNCHANGED <<clientVars, threadVars, roundVars, settings, reference_date, arg_blocks, raw_store, block_store,
                   summary_store, schedulerVars>>

\* settings = self.config.settings
LoadSettings ==
    /\ pc = "settings"
    /\ \/ pc' = "week" /\ UNCHANGED result
       \/ Caught(ErrSettings)
    /\ UNCHANGED <<clientVars, threadVars, roundVars, settings, reference_date, raw_events, arg_blocks, time_blocks,
                   week_start, week_end, hours_filled, raw_store, block_store,
                   summary_store, before_store, save_index, run_count, schedulerVars>>

\* get_work_week_start and get_work_week_end
ResolveWeek ==
    /\ pc = "week"
    /\ LET start == get_work_week_start(reference_date, settings.work_week_start_day,
                                        settings.work_week_start_time)
       IN  /\ week_start' = start
           /\ week_end' = get_work_week_end(start, settings.work_week_end_day,
                                            settings.work_week_end_time)
    /\ pc' = "fetch"
    /\ UNCHANGED <<clientVars, threadVars, roundVars, settings, reference_date, raw_events, arg_blocks, time_blocks,
                   hours_filled, storeVars, schedulerVars>>

Fetch ==
    /\ pc = "fetch"
    /\ \/ /\ raw_events' = fetch_raw_events_for_week(week_start, week_end)
          /\ pc' = "convert"
          /\ UNCHANGED result
       \/ Caught(ErrFetch) /\ UNCHANGED raw_events
    /\ UNCHANGED <<clientVars, threadVars, roundVars, settings, reference_date, arg_blocks, time_blocks,
                   week_start, week_end, hours_filled, raw_store, block_store,
                   summary_store, before_store, save_index, run_count, schedulerVars>>

ConvertAndSave ==
    /\ pc = "convert"
    /\ LET r == convert_to_time_blocks(raw_events, settings) IN
          IF r.raised
          THEN Caught(ErrUnknownSource) /\ UNCHANGED <<time_blocks, block_store>>
          ELSE /\ time_blocks' = r.blocks
               /\ block_store' = block_store
                      \o [i \in 1..Len(r.blocks) |-> BlockRecord(r.blocks[i], week_start)]
               /\ pc' = "resolve"
               /\ UNCHANGED result
    /\ UNCHANGED <<clientVars, threadVars, roundVars, settings, reference_date, raw_events, arg_blocks,
                   week_start, week_end, hours_filled, raw_store,
                   summary_store, before_store, save_index, run_count, schedulerVars>>

Convert ==
    /\ pc = "convert"
    /\ LET r == convert_to_time_blocks(raw_events, settings) IN
          IF r.raised
          THEN Caught(ErrUnknownSource) /\ UNCHANGED time_blocks
          ELSE /\ time_blocks' = r.blocks
               /\ pc' = "resolve"
               /\ UNCHANGED result
    /\ UNCHANGED <<clientVars, threadVars, roundVars, settings, reference_date, raw_events, arg_blocks,
                   week_start, week_end, hours_filled, raw_store, block_store,
                   summary_store, before_store, save_index, run_count, schedulerVars>>

Resolve ==
    /\ pc = "resolve"
    /\ time_blocks' = resolve_overlapping_blocks(time_blocks, settings)
    /\ pc' = "group"
    /\ UNCHANGED <<clientVars, threadVars, roundVars, settings, reference_date, raw_events, arg_blocks,
                   week_start, week_end, hours_filled, storeVars, schedulerVars>>

Group ==
    /\ pc = "group"
    /\ time_blocks' = group_activities(time_blocks, settings)
    /\ pc' = "autofill"
    /\ UNCHANGED <<clientVars, threadVars, roundVars, settings, reference_date, raw_events, arg_blocks,
                   week_start, week_end, hours_filled, storeVars, schedulerVars>>

AutoFill ==
    /\ pc = "autofill"
    /\ LET r == auto_fill_to_target(time_blocks, week_start, week_end, settings) IN
          /\ time_blocks' = r.blocks
          /\ hours_filled' = r.hours_filled
    /\ pc' = "save"
    /\ UNCHANGED <<clientVars, threadVars, roundVars, settings, reference_date, raw_events, arg_blocks,
                   week_start, week_end, storeVars, schedulerVars>>

\* the record that holds the same block of the same week already, or 0
RECURSIVE SameBlockRecord(_, _, _)
SameBlockRecord(records, record, i) ==
    IF i > Len(records) THEN 0
    ELSE IF /\ records[i].week_start = record.week_start
            /\ records[i].block_start = record.block_start
            /\ records[i].source = record.source
         THEN i
    ELSE SameBlockRecord(records, record, i + 1)

\* save_time_blocks' loop if create_time_block replaced the block's earlier record
SaveBlockUpsert ==
    /\ pc = "save"
    /\ save_index < Len(time_blocks)
    /\ \/ /\ LET record == BlockRecord(time_blocks[save_index + 1], week_start)
                 i == SameBlockRecord(block_store, record, 1)
             IN  block_store' = IF i # 0 THEN [block_store EXCEPT ![i] = record]
                                ELSE Append(block_store, record)
          /\ save_index' = save_index + 1
          /\ UNCHANGED <<pc, result>>
       \/ Caught(ErrCreate) /\ UNCHANGED <<block_store, save_index>>
    /\ UNCHANGED <<clientVars, threadVars, roundVars, settings, reference_date, raw_events, arg_blocks, time_blocks,
                   week_start, week_end, hours_filled, raw_store,
                   summary_store, before_store, run_count, schedulerVars>>

\* save_time_blocks' loop if a failed create removed the records the run had written
SaveBlockRollback ==
    /\ pc = "save"
    /\ save_index < Len(time_blocks)
    /\ \/ /\ block_store' = Append(block_store,
                                   BlockRecord(time_blocks[save_index + 1], week_start))
          /\ save_index' = save_index + 1
          /\ UNCHANGED <<pc, result>>
       \/ /\ Caught(ErrCreate)
          /\ block_store' = before_store.blocks
          /\ UNCHANGED save_index
    /\ UNCHANGED <<clientVars, threadVars, roundVars, settings, reference_date, raw_events, arg_blocks, time_blocks,
                   week_start, week_end, hours_filled, raw_store,
                   summary_store, before_store, run_count, schedulerVars>>

\* one iteration of save_time_blocks' loop
SaveBlock ==
    /\ pc = "save"
    /\ save_index < Len(time_blocks)
    /\ \/ /\ block_store' = Append(block_store,
                                   BlockRecord(time_blocks[save_index + 1], week_start))
          /\ save_index' = save_index + 1
          /\ UNCHANGED <<pc, result>>
       \/ Caught(ErrCreate) /\ UNCHANGED <<block_store, save_index>>
    /\ UNCHANGED <<clientVars, threadVars, roundVars, settings, reference_date, raw_events, arg_blocks, time_blocks,
                   week_start, week_end, hours_filled, raw_store,
                   summary_store, before_store, run_count, schedulerVars>>

\* update_week_summary and the return of the success result
UpdateSummary ==
    /\ pc = "save"
    /\ save_index = Len(time_blocks)
    /\ LET total_hours == calculate_week_hours(time_blocks) IN
       \/ /\ summary_store' = get_or_create_week_summary(summary_store, week_start,
                                  total_hours, SummaryMetadata(week_start, week_end, hours_filled))
          /\ result' = SuccessResult(week_start, week_end, raw_events, save_index,
                                     total_hours, hours_filled)
          /\ pc' = "done"
       \/ Caught(ErrSummary) /\ UNCHANGED summary_store
    /\ UNCHANGED <<clientVars, threadVars, roundVars, settings, reference_date, raw_events, arg_blocks, time_blocks,
                   week_start, week_end, hours_filled, raw_store, block_store,
                   before_store, save_index, run_count, schedulerVars>>

----------------------------------------------------------------------------
(* process_week as the one synchronous call a job body makes *)

\* where a run's I/O fails: step "none" is a run without failure, "create" fails
\* the create_time_block call that follows `saved` successful ones
IOFailure(step, saved) == [step |-> step, saved |-> saved]

\* lines 562-573: the in-memory steps, from the fetched events to the final blocks
PipelineBlocks(events, start, end, s) ==
    LET converted == convert_to_time_blocks(events, s) IN
    IF converted.raised THEN [raised |-> TRUE, blocks |-> <<>>, hours_filled |-> TdZero]
    ELSE LET resolved == resolve_overlapping_blocks(converted.blocks, s)
             grouped == group_activities(resolved, s)
             filled == auto_fill_to_target(grouped, start, end, s)
         IN  [raised |-> FALSE, blocks |-> filled.blocks, hours_filled |-> filled.hours_filled]

\* the stores and the result process_week leaves, given the stores it found
process_week(reference, s, raw, blocks, summaries, failure) ==
    LET start == get_work_week_start(reference, s.work_week_start_day, s.work_week_start_time)
        end == get_work_week_end(start, s.work_week_end_day, s.work_week_end_time)
        events == SelectSeq(raw, LAMBDA e : InWindow(e, start, end))
        computed == PipelineBlocks(events, start, end, s)
        total_hours == calculate_week_hours(computed.blocks)
        records == [i \in 1..Len(computed.blocks) |-> BlockRecord(computed.blocks[i], start)]
        Failed(error, saved) ==
            [blocks |-> blocks \o SubSeq(records, 1, saved), summaries |-> summaries,
             result |-> [success |-> FALSE, week_start |-> None, week_end |-> None,
                         raw_events_count |-> 0, time_blocks_created |-> 0,
                         total_hours |-> TdZero, hours_filled |-> TdZero, error |-> error]]
    IN  CASE failure.step = "settings" -> Failed(ErrSettings, 0)
          [] failure.step = "fetch" -> Failed(ErrFetch, 0)
          [] computed.raised -> Failed(ErrUnknownSource, 0)
          [] failure.step = "create" /\ failure.saved < Len(records) ->
                Failed(ErrCreate, failure.saved)
          [] failure.step = "summary" -> Failed(ErrSummary, Len(records))
          [] OTHER ->
                [blocks |-> blocks \o records,
                 summaries |-> get_or_create_week_summary(summaries, start, total_hours,
                                   SummaryMetadata(start, end, computed.hours_filled)),
                 result |-> SuccessResult(start, end, events, Len(records), total_hours,
                                          computed.hours_filled)]

----------------------------------------------------------------------------
(* scheduler.py: JobLock and the two scheduled jobs *)

JobNames == {"fetch_and_process", "monday_fillup"}

\* job_locks maps each job name that has a Lock to whether the Lock is held
LockHeld(locks, job_name) == job_name \in DOMAIN locks /\ locks[job_name]

\* JobLock.acquire: create the Lock on first use, then Lock.acquire(blocking=False)
acquireAlways(locks, job_name) ==
    [locks |-> (job_name :> TRUE) @@ locks, acquired |-> TRUE]

acquire(locks, job_name) ==
    IF LockHeld(locks, job_name)
    THEN [locks |-> locks, acquired |-> FALSE]
    ELSE [locks |-> (job_name :> TRUE) @@ locks, acquired |-> TRUE]

\* a release that leaves the Lock locked
releaseNothing(locks, job_name) == locks

\* JobLock.release: releasing a Lock that is not held raises RuntimeError, ignored
release(locks, job_name) ==
    IF job_name \in DOMAIN locks THEN (job_name :> FALSE) @@ locks ELSE locks

\* the events the fetchers of a job may find
SchedulerEvents ==
    {RawEvent("wakatime", Timestamp("datetime", TRUE, Dt(8 * MinutesPerDay + 600)), 65, <<"Coding">>),
     RawEvent("unknown", Timestamp("datetime", TRUE, Dt(8 * MinutesPerDay + 630)), 30, <<"Coding">>)}

\* the I/O failures of one process_week call
IOFailures ==
    {IOFailure(step, 0) : step \in {"none", "settings", "fetch", "summary"}}
        \cup {IOFailure("create", saved) : saved \in 0..1}

Invocation(job, at) == [job |-> job, pc |-> at]

\* the first step of a job's try block
BodyStart(job) == IF job = "fetch_and_process" THEN "fetch" ELSE "process"

MaxInvocations == 3

\* the scheduler's trigger fires: a new invocation of the job's coroutine
Trigger(job) ==
    /\ Len(invocations) < MaxInvocations
    /\ invocations' = Append(invocations, Invocation(job, "acquire"))
    /\ UNCHANGED <<clientVars, threadVars, roundVars, pc, settings, reference_date, raw_events, arg_blocks, time_blocks,
                   week_start, week_end, hours_filled, storeVars, job_locks>>

\* lines 153-155 and 206-208: `if not self.job_lock.acquire(job_name): return`
JobAcquire(i) ==
    /\ invocations[i].pc = "acquire"
    /\ LET r == acquire(job_locks, invocations[i].job) IN
          /\ job_locks' = r.locks
          /\ invocations' = [invocations EXCEPT ![i].pc =
                                IF r.acquired THEN BodyStart(invocations[i].job) ELSE "skipped"]
    /\ UNCHANGED <<clientVars, threadVars, roundVars, pc, settings, reference_date, raw_events, arg_blocks, time_blocks,
                   week_start, week_end, hours_filled, storeVars>>

\* `await self._fetch_all_sources()`: the fetchers store the events they found, or
\* the settings lookup raises and the except clause logs it
JobFetch(i) ==
    /\ invocations[i].pc = "fetch"
    /\ \/ /\ \E found \in SUBSET (SchedulerEvents \ {raw_store[k] : k \in DOMAIN raw_store}) :
                raw_store' = AscendingList({raw_store[k] : k \in DOMAIN raw_store} \cup found)
          /\ invocations' = [invocations EXCEPT ![i].pc = "process"]
       \/ /\ invocations' = [invocations EXCEPT ![i].pc = "release"]
          /\ UNCHANGED raw_store
    /\ UNCHANGED <<clientVars, threadVars, roundVars, pc, settings, reference_date, raw_events, arg_blocks, time_blocks,
                   week_start, week_end, hours_filled, block_store, summary_store,
                   before_store, result, save_index, run_count, job_locks>>

\* `processor.process_week()` and the logging of its result
JobProcess(i) ==
    /\ invocations[i].pc = "process"
    /\ run_count < MaxInvocations
    /\ \E failure \in IOFailures :
          LET run == process_week(reference_date, settings, raw_store, block_store,
                                  summary_store, failure)
          IN  /\ block_store' = run.blocks
              /\ summary_store' = run.summaries
              /\ result' = run.result
    /\ run_count' = run_count + 1
    /\ invocations' = [invocations EXCEPT ![i].pc = "release"]
    /\ UNCHANGED <<clientVars, threadVars, roundVars, pc, settings, reference_date, raw_events, arg_blocks, time_blocks,
                   week_start, week_end, hours_filled, raw_store, before_store,
                   save_index, job_locks>>

\* `finally: self.job_lock.release(job_name)`
JobRelease(i) ==
    /\ invocations[i].pc = "release"
    /\ job_locks' = release(job_locks, invocations[i].job)
    /\ invocations' = [invocations EXCEPT ![i].pc = "ended"]
    /\ UNCHANGED <<clientVars, threadVars, roundVars, pc, settings, reference_date, raw_events, arg_blocks, time_blocks,
                   week_start, week_end, hours_filled, storeVars>>

----------------------------------------------------------------------------
(* Values every specification starts from for the state it does not use *)

NoStore == [blocks |-> <<>>, summaries |-> <<>>]

CallIdle ==
    /\ reference_date = None
    /\ raw_events = <<>>
    /\ arg_blocks = <<>>
    /\ time_blocks = <<>>
    /\ week_start = None
    /\ week_end = None
    /\ hours_filled = None

StoreIdle ==
    /\ raw_store = <<>>
    /\ block_store = <<>>
    /\ summary_store = <<>>
    /\ before_store = NoStore
    /\ result = None
    /\ save_index = 0
    /\ run_count = 0

SchedulerIdle ==
    /\ job_locks = <<>>
    /\ invocations = <<>>

RoundIdle ==
    /\ arg_minutes = 0
    /\ ret_half_hours = 0

ClientIdle == summary_calls = <<>>

ThreadIdle ==
    /\ lock_table = <<>>
    /\ lock_objects = <<>>
    /\ acquire_calls = <<>>

----------------------------------------------------------------------------
(* resolve_overlaps, strategy "priority", on any list of blocks *)

\* block times of the resolver's inputs, in minutes
ResolverTimes == {0, 30, 60, 90}

\* every interval with start < end, one empty and one reversed interval
ResolverIntervals ==
    {<<s, e>> \in ResolverTimes \X ResolverTimes : s < e} \cup {<<30, 30>>, <<60, 30>>}

ResolverSources == {"wakatime", "calendar", "github", "cloud_events"}

ResolverBlocks ==
    {TimeBlock(Dt(i[1]), Dt(i[2]), src, <<"work">>) :
        i \in ResolverIntervals, src \in ResolverSources}

ResolveInit ==
    /\ pc = "call"
    /\ settings = [DefaultSettings EXCEPT !.overlap_handling = "priority"]
    /\ reference_date = None
    /\ raw_events = <<>>
    /\ \E n \in 0..MaxBlocks : arg_blocks \in [1..n -> ResolverBlocks]
    /\ time_blocks = <<>>
    /\ week_start = None
    /\ week_end = None
    /\ hours_filled = None
    /\ StoreIdle
    /\ SchedulerIdle
    /\ ClientIdle
    /\ ThreadIdle
    /\ RoundIdle

ResolveCall ==
    /\ pc = "call"
    /\ time_blocks' = resolve_overlapping_blocks(arg_blocks, settings)
    /\ pc' = "returned"
    /\ UNCHANGED <<clientVars, threadVars, roundVars, settings, reference_date, raw_events, arg_blocks,
                   week_start, week_end, hours_filled, storeVars, schedulerVars>>

SpecResolve == ResolveInit /\ [][ResolveCall]_vars

NoTwoOverlap(blocks) ==
    \A i, j \in 1..Len(blocks) : i # j => ~overlaps_with(blocks[i], blocks[j])

\* C1: whatever the input list, the list the "priority" strategy returns holds no two
\* distinct blocks that overlap (start1 < end2 and start2 < end1).
C1_PriorityNoOverlap ==
    (pc = "returned" /\ settings.overlap_handling = "priority") => NoTwoOverlap(time_blocks)

\* the priority strategy met a block that overlaps an accepted block of lower priority
\* and an earlier start, put it in its place, and returned two blocks
C1_Witness ==
    /\ pc = "returned"
    /\ settings.overlap_handling = "priority"
    /\ Len(time_blocks) = 2
    /\ \E i, j \in 1..Len(arg_blocks), k \in 1..Len(time_blocks) :
          /\ overlaps_with(arg_blocks[i], arg_blocks[j])
          /\ DtLt(arg_blocks[i].start, arg_blocks[j].start)
          /\ Priority(arg_blocks[j]) > Priority(arg_blocks[i])
          /\ time_blocks[k] = arg_blocks[j]
          /\ \A n \in 1..Len(time_blocks) : time_blocks[n] # arg_blocks[i]

----------------------------------------------------------------------------
(* convert_to_time_blocks on any batch of raw events *)

MaxEvents == 2

RoundingModes == {"up", "nearest"}

EventSources == {"wakatime", "unknown"}

EventTimestamps ==
    {Timestamp("datetime", TRUE, Dt(600)), Timestamp("iso_string", TRUE, Dt(660)),
     Timestamp("plain_string", FALSE, Dt(0)), Timestamp("other", FALSE, Dt(0))}

EventDurations == {-5, 0, 10, 45}

Events ==
    {RawEvent(src, ts, d, <<"work">>) :
        src \in EventSources, ts \in EventTimestamps, d \in EventDurations}

ConvertInit ==
    /\ pc = "call"
    /\ settings \in {[DefaultSettings EXCEPT !.rounding_mode = r] : r \in RoundingModes}
    /\ reference_date = None
    /\ \E n \in 0..MaxEvents : raw_events \in [1..n -> Events]
    /\ arg_blocks = <<>>
    /\ time_blocks = <<>>
    /\ week_start = None
    /\ week_end = None
    /\ hours_filled = None
    /\ StoreIdle
    /\ SchedulerIdle
    /\ ClientIdle
    /\ ThreadIdle
    /\ RoundIdle

ConvertCall ==
    /\ pc = "call"
    /\ LET r == convert_to_time_blocks(raw_events, settings) IN
          /\ pc' = IF r.raised THEN "raised" ELSE "returned"
          /\ time_blocks' = r.blocks
    /\ UNCHANGED <<clientVars, threadVars, roundVars, settings, reference_date, raw_events, arg_blocks,
                   week_start, week_end, hours_filled, storeVars, schedulerVars>>

SpecConvert == ConvertInit /\ [][ConvertCall]_vars

\* C2: every block convert_to_time_blocks produces, in either rounding mode, starts
\* before it ends and lasts a positive multiple of 30 minutes.
C2_BlocksPositiveHalfHours ==
    pc = "returned" =>
        \A i \in 1..Len(time_blocks) :
            LET d == Duration(time_blocks[i]) IN
               /\ DtLt(time_blocks[i].start, time_blocks[i].end)
               /\ d.us = 0 /\ d.m > 0 /\ d.m % HalfHourMinutes = 0

\* the events that are neither malformed nor of non-positive duration
WellFormed(event) ==
    /\ event.timestamp.kind \in {"datetime", "iso_string", "plain_string"}
    /\ event.timestamp.kind = "datetime" \/ event.timestamp.wellformed
    /\ event.duration_minutes > 0

Remaining(events) == SelectSeq(events, WellFormed)

\* C8: events with a malformed timestamp or a duration <= 0 are skipped without
\* raising (a raise comes only from a remaining event, one of unknown source), and
\* the list returned holds one block per remaining event, in input order, that
\* starts at the event's timestamp.
C8_SkipsMalformed ==
    LET rest == Remaining(raw_events) IN
       /\ pc = "raised" => \E i \in 1..Len(rest) : rest[i].source \notin KnownSources
       /\ pc = "returned" =>
             /\ Len(time_blocks) = Len(rest)
             /\ \A i \in 1..Len(rest) :
                   /\ time_blocks[i].start = rest[i].timestamp.value
                   /\ time_blocks[i].source = rest[i].source
                   /\ time_blocks[i].description = rest[i].description

\* a batch whose first event is skipped and whose second one became the only block
C8_Witness ==
    /\ pc = "returned"
    /\ Len(raw_events) = 2
    /\ ~WellFormed(raw_events[1])
    /\ WellFormed(raw_events[2])
    /\ Len(time_blocks) = 1
    /\ time_blocks[1].start = raw_events[2].timestamp.value

----------------------------------------------------------------------------
(* auto_fill_to_target on any block list, week window and settings *)

FillUpDistributions == {"end_of_week", "distributed", "empty_slots"}

FillUpTopicModes == {"manual", "auto", "generic"}

FillTargets == {1, 5, 40}

FillBlocks ==
    {TimeBlock(Dt(2040), Dt(2040 + d), "wakatime", desc) :
        d \in {30, 60}, desc \in {<<"Coding">>, <<"Review">>}}

\* windows from Monday 09:00 or 18:00 to 02:00 or 18:00 one to six days later: 1 to 7
\* days
FillWindows ==
    {<<Dt(sm * MinutesPerHour), Dt(d * MinutesPerDay + em * MinutesPerHour)>> :
        sm \in {9, 18}, em \in {2, 18}, d \in 1..6}

FillInit ==
    /\ pc = "call"
    /\ settings \in
          {[DefaultSettings EXCEPT !.auto_fill_enabled = en, !.target_hours_per_week = t,
                                   !.fill_up_distribution = dist, !.fill_up_topic_mode = tm] :
              en \in BOOLEAN, t \in FillTargets, dist \in FillUpDistributions,
              tm \in FillUpTopicModes}
    /\ reference_date = None
    /\ raw_events = <<>>
    /\ \E n \in 0..MaxBlocks : arg_blocks \in [1..n -> FillBlocks]
    /\ time_blocks = <<>>
    /\ \E w \in FillWindows : week_start = w[1] /\ week_end = w[2]
    /\ hours_filled = None
    /\ StoreIdle
    /\ SchedulerIdle
    /\ ClientIdle
    /\ ThreadIdle
    /\ RoundIdle

FillCall ==
    /\ pc = "call"
    /\ LET r == auto_fill_to_target(arg_blocks, week_start, week_end, settings) IN
          /\ time_blocks' = r.blocks
          /\ hours_filled' = r.hours_filled
    /\ pc' = "returned"
    /\ UNCHANGED <<clientVars, threadVars, roundVars, settings, reference_date, raw_events, arg_blocks,
                   week_start, week_end, storeVars, schedulerVars>>

SpecFill == FillInit /\ [][FillCall]_vars

BelowTarget ==
    settings.auto_fill_enabled /\ DtLt(calculate_week_hours(arg_blocks), TargetHours(settings))

\* C3: with auto-fill enabled and the blocks' total below the target, hours_filled is
\* target - total and the returned list is the original blocks followed by synthetic
\* auto_fill blocks, with a total of exactly the target, for every distribution.
C3_FillsToTarget ==
    (pc = "returned" /\ BelowTarget) =>
        /\ hours_filled = DtSub(TargetHours(settings), calculate_week_hours(arg_blocks))
        /\ Len(time_blocks) > Len(arg_blocks)
        /\ SubSeq(time_blocks, 1, Len(arg_blocks)) = arg_blocks
        /\ \A i \in (Len(arg_blocks) + 1)..Len(time_blocks) : time_blocks[i].source = "auto_fill"
        /\ calculate_week_hours(time_blocks) = TargetHours(settings)

\* C4: with auto-fill disabled, or a total at or above the target, the input list
\* comes back unchanged together with hours_filled = 0.0.
C4_NoOpAtTarget ==
    (pc = "returned" /\ ~BelowTarget) =>
        /\ time_blocks = arg_blocks
        /\ hours_filled = TdZero

\* auto-fill is enabled and the blocks add up to the target exactly
C4_Witness ==
    /\ pc = "returned"
    /\ settings.auto_fill_enabled
    /\ arg_blocks # <<>>
    /\ calculate_week_hours(arg_blocks) = TargetHours(settings)
    /\ time_blocks = arg_blocks

----------------------------------------------------------------------------
(* get_work_week_start on any reference instant, start day and start time *)

DayNames == DOMAIN day_map

\* reference instants: every weekday of the second week after the epoch, at times of
\* day around the start times below, on the minute and 30.5 seconds into it
ReferenceDates ==
    {[m |-> d * MinutesPerDay + t, us |-> u] :
        d \in DaysPerWeek..(2 * DaysPerWeek - 1),
        t \in {0, 539, 540, 1079, 1080, 1439},
        u \in {0, 30500000}}

StartTimes == {<<0, 0>>, <<9, 0>>, <<18, 0>>, <<23, 59>>}

CalendarInit ==
    /\ pc = "call"
    /\ settings \in
          {[DefaultSettings EXCEPT !.work_week_start_day = d, !.work_week_start_time = t] :
              d \in DayNames, t \in StartTimes}
    /\ reference_date \in ReferenceDates
    /\ raw_events = <<>>
    /\ arg_blocks = <<>>
    /\ time_blocks = <<>>
    /\ week_start = None
    /\ week_end = None
    /\ hours_filled = None
    /\ StoreIdle
    /\ SchedulerIdle
    /\ ClientIdle
    /\ ThreadIdle
    /\ RoundIdle

CalendarCall ==
    /\ pc = "call"
    /\ week_start' = get_work_week_start(reference_date, settings.work_week_start_day,
                                         settings.work_week_start_time)
    /\ pc' = "returned"
    /\ UNCHANGED <<clientVars, threadVars, roundVars, settings, reference_date, raw_events, arg_blocks, time_blocks,
                   week_end, hours_filled, storeVars, schedulerVars>>

SpecCalendar == CalendarInit /\ [][CalendarCall]_vars

OnStartDayBeforeStartTime ==
    /\ Weekday(reference_date) = day_map[settings.work_week_start_day]
    /\ MinuteOfDay(reference_date) < TimeMinutes(settings.work_week_start_time)

----------------------------------------------------------------------------
(* process_week over any contents of the raw-event collection *)

Tuesday1000 == Dt(8 * MinutesPerDay + 10 * MinutesPerHour)

Tuesday1030 == Dt(8 * MinutesPerDay + 10 * MinutesPerHour + 30)

Tuesday1130 == Dt(8 * MinutesPerDay + 11 * MinutesPerHour + 30)

Tuesday1300 == Dt(8 * MinutesPerDay + 13 * MinutesPerHour)

\* the events the collection may hold, all inside the week of the reference dates
WeekEvents ==
    {RawEvent("wakatime", Timestamp("datetime", TRUE, Tuesday1000), 65, <<"Coding">>),
     RawEvent("github", Timestamp("iso_string", TRUE, Tuesday1030), 45, <<"Review">>),
     RawEvent("calendar", Timestamp("datetime", TRUE, Tuesday1130), 30, <<"Meeting">>),
     RawEvent("wakatime", Timestamp("iso_string", TRUE, Tuesday1300), 30, <<"Coding">>),
     RawEvent("unknown", Timestamp("datetime", TRUE, Tuesday1030), 30, <<"Coding">>),
     RawEvent("unknown", Timestamp("datetime", TRUE, Tuesday1000), 0, <<"Idle">>),
     RawEvent("unknown", Timestamp("plain_string", FALSE, Tuesday1030), 45, <<"Review">>)}

WeekSettings ==
    {[DefaultSettings EXCEPT !.group_same_activities = g, !.fill_up_distribution = d] :
        g \in BOOLEAN, d \in {"end_of_week", "distributed"}}

\* Wednesday 10:00 of the second week
WeekReference == Dt(9 * MinutesPerDay + 10 * MinutesPerHour)

WeekInit ==
    /\ pc = "idle"
    /\ settings \in WeekSettings
    /\ reference_date = WeekReference
    /\ raw_store \in {AscendingList(S) : S \in SUBSET WeekEvents}
    /\ raw_events = <<>>
    /\ arg_blocks = <<>>
    /\ time_blocks = <<>>
    /\ week_start = None
    /\ week_end = None
    /\ hours_filled = None
    /\ block_store = <<>>
    /\ summary_store = <<>>
    /\ before_store = NoStore
    /\ result = None
    /\ save_index = 0
    /\ run_count = 0
    /\ SchedulerIdle
    /\ ClientIdle
    /\ ThreadIdle
    /\ RoundIdle

StoredEvents == {raw_store[i] : i \in DOMAIN raw_store}

\* a fetcher stores one more event (create_raw_event) while no run is in progress
Ingest ==
    /\ pc \in {"done", "failed"}
    /\ run_count < MaxRuns
    /\ \E event \in WeekEvents \ StoredEvents :
          raw_store' = AscendingList(StoredEvents \cup {event})
    /\ UNCHANGED <<clientVars, threadVars, roundVars, pc, settings, reference_date, raw_events, arg_blocks, time_blocks,
                   week_start, week_end, hours_filled, block_store, summary_store,
                   before_store, result, save_index, run_count, schedulerVars>>

WeekNext ==
    \/ Enter
    \/ Ingest
    \/ LoadSettings
    \/ ResolveWeek
    \/ Fetch
    \/ Convert
    \/ Resolve
    \/ Group
    \/ AutoFill
    \/ SaveBlock
    \/ UpdateSummary

SpecWeek == WeekInit /\ [][WeekNext]_vars

StoresAsBefore ==
    /\ block_store = before_store.blocks
    /\ summary_store = before_store.summaries

InMemoryErrors == {ErrSettings, ErrFetch, ErrUnknownSource}

\* C5: process_week never raises; a run that hit an exception in any step has
\* returned a result with success = false and the exception's message as error,
\* week_start and week_end unset and every count zero.  (A run ends in "done" or
\* "failed" only, and both carry a result.)
C5_FailureResult ==
    /\ pc \in {"done", "failed"} => result # None
    /\ pc = "failed" =>
          /\ result.success = FALSE
          /\ result.error \in InMemoryErrors \cup {ErrCreate, ErrSummary}
          /\ result.week_start = None
          /\ result.week_end = None
          /\ result.raw_events_count = 0
          /\ result.time_blocks_created = 0
          /\ result.total_hours = TdZero
          /\ result.hours_filled = TdZero

\* a run fails while saving, after the week was resolved, events were fetched and one
\* block was saved
C5_Witness ==
    /\ pc = "failed"
    /\ result.error = ErrCreate
    /\ week_start # None
    /\ Len(raw_events) > 0
    /\ save_index > 0
    /\ result.week_start = None
    /\ result.time_blocks_created = 0

\* C6: while process_week is in its in-memory steps (settings, week resolution,
\* fetch, normalization, overlap resolution, grouping, auto-fill) the time-block
\* store and the week-summary store are as they were before the run, and they
\* still are when one of those steps has failed.
C6_NothingPersistedEarly ==
    (\/ pc \in InMemorySteps
     \/ pc = "failed" /\ result.error \in InMemoryErrors)
    => StoresAsBefore

\* a second run fails in normalization with both stores holding the first run's records
C6_Witness ==
    /\ pc = "failed"
    /\ result.error = ErrUnknownSource
    /\ run_count = 2
    /\ block_store # <<>>
    /\ summary_store # <<>>
    /\ StoresAsBefore

UnknownSource(event) == event.source \notin KnownSources

RunAborted ==
    /\ pc = "failed"
    /\ result.success = FALSE
    /\ StoresAsBefore

PastNormalization == pc \in {"resolve", "group", "autofill", "save", "done", "failed"}

\* C7 as stated: a fetched event of unknown source aborts the run with nothing
\* persisted, whatever its other fields.
C7_UnknownSourceAborts ==
    (PastNormalization /\ \E i \in DOMAIN raw_events : UnknownSource(raw_events[i]))
    => RunAborted

\* C7 amended: a fetched event of unknown source whose timestamp parses and whose
\* duration is positive aborts the run: process_week returns success = false with
\* the unknown-source error and persists nothing, whatever the other events.
C7_UnknownSourceAbortsWhenWellFormed ==
    (/\ PastNormalization
     /\ \E i \in DOMAIN raw_events : UnknownSource(raw_events[i]) /\ WellFormed(raw_events[i]))
    => (RunAborted /\ result.error = ErrUnknownSource)

\* the run aborts on an unknown source with known-source events in the same batch
C7_Witness ==
    /\ pc = "failed"
    /\ result.error = ErrUnknownSource
    /\ \E i \in DOMAIN raw_events : UnknownSource(raw_events[i]) /\ WellFormed(raw_events[i])
    /\ \E i \in DOMAIN raw_events : ~UnknownSource(raw_events[i])
    /\ StoresAsBefore

----------------------------------------------------------------------------
(* the scheduled jobs, their invocations interleaved step by step *)

SchedulerInit ==
    /\ pc = "idle"
    /\ settings = DefaultSettings
    /\ reference_date = WeekReference
    /\ raw_events = <<>>
    /\ arg_blocks = <<>>
    /\ time_blocks = <<>>
    /\ week_start = None
    /\ week_end = None
    /\ hours_filled = None
    /\ StoreIdle
    /\ SchedulerIdle
    /\ ClientIdle
    /\ ThreadIdle
    /\ RoundIdle

SchedulerNext ==
    \/ \E job \in JobNames : Trigger(job)
    \/ \E i \in DOMAIN invocations : JobAcquire(i)
    \/ \E i \in DOMAIN invocations : JobFetch(i)
    \/ \E i \in DOMAIN invocations : JobProcess(i)
    \/ \E i \in DOMAIN invocations : JobRelease(i)

SpecSched == SchedulerInit /\ [][SchedulerNext]_vars

InBody(invocation) == invocation.pc \in {"fetch", "process", "release"}

\* C9: two invocations of the same job are never in the job body together; an
\* invocation that found the lock held is skipped for good (it never runs later),
\* and the step that skips it leaves every lock, and the stores, as they were.
C9_NoOverlapSkipNotQueued ==
    /\ [](\A i, j \in DOMAIN invocations :
             (i # j /\ invocations[i].job = invocations[j].job)
                => ~(InBody(invocations[i]) /\ InBody(invocations[j])))
    /\ [][\A i \in DOMAIN invocations :
             /\ invocations[i].pc = "skipped" => invocations'[i].pc = "skipped"
             /\ (invocations[i].pc = "acquire" /\ invocations'[i].pc = "skipped")
                   => (/\ LockHeld(job_locks, invocations[i].job)
                       /\ job_locks' = job_locks
                       /\ block_store' = block_store
                       /\ summary_store' = summary_store
                       /\ raw_store' = raw_store)]_vars

\* one invocation is in its body, holding the lock, and a later one of the same job
\* has been skipped
C9_Witness ==
    \E i, j \in DOMAIN invocations :
       /\ i # j
       /\ invocations[i].job = invocations[j].job
       /\ invocations[i].pc = "process"
       /\ invocations[j].pc = "skipped"
       /\ LockHeld(job_locks, invocations[i].job)

----------------------------------------------------------------------------
(* get_work_week_end on any week start, end day and end time *)

WeekEndInit ==
    /\ pc = "call"
    /\ settings \in
          {[DefaultSettings EXCEPT !.work_week_end_day = d, !.work_week_end_time = t] :
              d \in DayNames, t \in StartTimes}
    /\ week_start \in ReferenceDates
    /\ reference_date = None
    /\ raw_events = <<>>
    /\ arg_blocks = <<>>
    /\ time_blocks = <<>>
    /\ week_end = None
    /\ hours_filled = None
    /\ StoreIdle
    /\ SchedulerIdle
    /\ ClientIdle
    /\ ThreadIdle
    /\ RoundIdle

WeekEndCall ==
    /\ pc = "call"
    /\ week_end' = get_work_week_end(week_start, settings.work_week_end_day,
                                     settings.work_week_end_time)
    /\ pc' = "returned"
    /\ UNCHANGED <<clientVars, threadVars, roundVars, settings, reference_date, raw_events, arg_blocks, time_blocks,
                   week_start, hours_filled, storeVars, schedulerVars>>

SpecWeekEnd == WeekEndInit /\ [][WeekEndCall]_vars

DateOf(dt) == dt.m \div MinutesPerDay

----------------------------------------------------------------------------
(* round_to_half_hour on every whole number of minutes up to MaxMinutes *)

MaxMinutes == 120

RoundInit ==
    /\ pc = "call"
    /\ settings \in {[DefaultSettings EXCEPT !.rounding_mode = mode] : mode \in RoundingModes}
    /\ arg_minutes \in 0..MaxMinutes
    /\ ret_half_hours = 0
    /\ CallIdle
    /\ StoreIdle
    /\ SchedulerIdle
    /\ ClientIdle
    /\ ThreadIdle

RoundCall ==
    /\ pc = "call"
    /\ ret_half_hours' = round_to_half_hour(arg_minutes, settings.rounding_mode)
    /\ pc' = "returned"
    /\ UNCHANGED <<clientVars, threadVars, arg_minutes, settings, reference_date, raw_events, arg_blocks, time_blocks,
                   week_start, week_end, hours_filled, storeVars, schedulerVars>>

SpecRound == RoundInit /\ [][RoundCall]_vars

\* the examples of the rounding table: <<minutes, half hours>>
ExamplesUp == {<<10, 1>>, <<30, 1>>, <<35, 2>>, <<65, 3>>}

ExamplesNearest == {<<10, 0>>, <<20, 1>>, <<35, 1>>, <<45, 2>>, <<50, 2>>}

\* C12: in mode UP the result is the smallest number of half hours covering the
\* minutes; in mode NEAREST it is a number of half hours within 15 minutes of them,
\* and at a tie (an odd multiple of 15 minutes) always the even number of half hours;
\* the examples of the table come out as listed.
C12_RoundingTable ==
    pc = "returned" =>
        LET k == ret_half_hours
            distance == IF k * HalfHourMinutes >= arg_minutes
                        THEN k * HalfHourMinutes - arg_minutes
                        ELSE arg_minutes - k * HalfHourMinutes
        IN  /\ k >= 0
            /\ settings.rounding_mode = "up" =>
                  /\ k * HalfHourMinutes >= arg_minutes
                  /\ (k - 1) * HalfHourMinutes < arg_minutes
                  /\ \A e \in ExamplesUp : arg_minutes = e[1] => k = e[2]
            /\ settings.rounding_mode = "nearest" =>
                  /\ 2 * distance <= HalfHourMinutes
                  /\ 2 * distance = HalfHourMinutes => k % 2 = 0
                  /\ \A e \in ExamplesNearest : arg_minutes = e[1] => k = e[2]

\* a tie that goes down to the even number of half hours: 75 minutes -> 1.0 h
C12_Witness ==
    /\ pc = "returned"
    /\ settings.rounding_mode = "nearest"
    /\ arg_minutes = 75
    /\ ret_half_hours = 2

\* C13: under the priority strategy no block of the output overlaps an input block of
\* strictly higher priority.
C13_OnlyHighestSurvives ==
    pc = "returned" =>
        \A i \in DOMAIN time_blocks, j \in DOMAIN arg_blocks :
            Priority(arg_blocks[j]) > Priority(time_blocks[i])
                => ~overlaps_with(time_blocks[i], arg_blocks[j])

----------------------------------------------------------------------------
(* resolve_overlaps, each of the three strategies, on any list of blocks *)

StrategySources == {"wakatime", "github", "cloud_events"}

StrategyBlocks ==
    {TimeBlock(Dt(i[1]), Dt(i[2]), src, <<"work">>) :
        i \in ResolverIntervals, src \in StrategySources}

StrategiesInit ==
    /\ pc = "call"
    /\ settings \in {[DefaultSettings EXCEPT !.overlap_handling = strategy] :
                        strategy \in OverlapHandling}
    /\ reference_date = None
    /\ raw_events = <<>>
    /\ \E n \in 0..MaxBlocks : arg_blocks \in [1..n -> StrategyBlocks]
    /\ time_blocks = <<>>
    /\ week_start = None
    /\ week_end = None
    /\ hours_filled = None
    /\ StoreIdle
    /\ SchedulerIdle
    /\ ClientIdle
    /\ ThreadIdle
    /\ RoundIdle

SpecStrategies == StrategiesInit /\ [][ResolveCall]_vars

Returned(strategy) == pc = "returned" /\ settings.overlap_handling = strategy

\* the input blocks that overlap arg_blocks[i], and i itself
Neighbours(i) == {i} \cup {j \in DOMAIN arg_blocks : overlaps_with(arg_blocks[i], arg_blocks[j])}

RECURSIVE Linked(_)
Linked(S) ==
    LET T == UNION {Neighbours(i) : i \in S} IN
    IF T = S THEN S ELSE Linked(T)

\* the maximal sets of input blocks linked by chains of overlaps
ConnectedGroups == {Linked({i}) : i \in DOMAIN arg_blocks}

GroupStart(G) == CHOOSE s \in {arg_blocks[i].start : i \in G} :
                    \A i \in G : DtLe(s, arg_blocks[i].start)

GroupEnd(G) == CHOOSE e \in {arg_blocks[i].end : i \in G} :
                    \A i \in G : DtLe(arg_blocks[i].end, e)

\* C14: the combine strategy returns one block per connected group of the overlap
\* relation, from the group's minimum start to its maximum end, a group of one as the
\* block itself; no two overlapping input blocks come out in different blocks.
C14_CombineOnePerGroup ==
    Returned("combine") =>
        /\ Len(time_blocks) = Cardinality(ConnectedGroups)
        /\ \A G \in ConnectedGroups :
              \E k \in DOMAIN time_blocks :
                 /\ time_blocks[k].start = GroupStart(G)
                 /\ time_blocks[k].end = GroupEnd(G)
                 /\ \A i \in G : G = {i} => time_blocks[k] = arg_blocks[i]

Occurrences(blocks, b) == Cardinality({i \in DOMAIN blocks : blocks[i] = b})

\* ascending start, and descending priority among equal starts
InStartPriorityOrder(blocks) ==
    \A i \in 1..(Len(blocks) - 1) :
        \/ DtLt(blocks[i].start, blocks[i + 1].start)
        \/ /\ blocks[i].start = blocks[i + 1].start
           /\ Priority(blocks[i]) >= Priority(blocks[i + 1])

\* C15: show_both returns the input blocks, each as often as it was given and none
\* other, in (start ascending, priority descending) order; overlapping blocks are all
\* kept, so the lengths and the total hours of input and output agree.
C15_ShowBothKeepsAll ==
    Returned("show_both") =>
        /\ Len(time_blocks) = Len(arg_blocks)
        /\ \A b \in StrategyBlocks : Occurrences(time_blocks, b) = Occurrences(arg_blocks, b)
        /\ InStartPriorityOrder(time_blocks)
        /\ calculate_week_hours(time_blocks) = calculate_week_hours(arg_blocks)

\* two overlapping blocks of one start, given lower priority first, both come back,
\* higher priority first
C15_Witness ==
    /\ Returned("show_both")
    /\ Len(arg_blocks) = 2
    /\ arg_blocks[1].start = arg_blocks[2].start
    /\ overlaps_with(arg_blocks[1], arg_blocks[2])
    /\ Priority(arg_blocks[1]) < Priority(arg_blocks[2])
    /\ time_blocks = <<arg_blocks[2], arg_blocks[1]>>

\* C16: for each strategy and any input list the returned list is in ascending order
\* of block start.
C16_OutputSortedByStart ==
    pc = "returned" =>
        \A i \in 1..(Len(time_blocks) - 1) : DtLe(time_blocks[i].start, time_blocks[i + 1].start)

\* the combine strategy returns a merged block and a later single block for an input
\* given latest start first
C16_Witness ==
    /\ Returned("combine")
    /\ Len(arg_blocks) = 3
    /\ DtLt(arg_blocks[3].start, arg_blocks[2].start)
    /\ DtLt(arg_blocks[2].start, arg_blocks[1].start)
    /\ Len(time_blocks) = 2
    /\ time_blocks[2] = arg_blocks[1]
    /\ DtLt(time_blocks[1].start, time_blocks[2].start)

----------------------------------------------------------------------------
(* group_activities on any list of blocks, grouping enabled and disabled *)

\* block starts: two on one day, the second half an hour before midnight, and
\* midnight of the next day
GroupStarts == {Dt(10 * MinutesPerHour), Dt(MinutesPerDay - 30), Dt(MinutesPerDay)}

GroupBlocks ==
    {TimeBlock(start, DtAdd(start, TdMinutes(d)), src, desc) :
        start \in GroupStarts, d \in {30, 60}, src \in {"wakatime", "github"},
        desc \in {<<"Coding">>, <<"Review">>}}

GroupInit ==
    /\ pc = "call"
    /\ settings \in {[DefaultSettings EXCEPT !.group_same_activities = g] : g \in BOOLEAN}
    /\ reference_date = None
    /\ raw_events = <<>>
    /\ \E n \in 0..MaxBlocks : arg_blocks \in [1..n -> GroupBlocks]
    /\ time_blocks = <<>>
    /\ week_start = None
    /\ week_end = None
    /\ hours_filled = None
    /\ StoreIdle
    /\ SchedulerIdle
    /\ ClientIdle
    /\ ThreadIdle
    /\ RoundIdle

GroupCall ==
    /\ pc = "call"
    /\ time_blocks' = group_activities(arg_blocks, settings)
    /\ pc' = "returned"
    /\ UNCHANGED <<clientVars, threadVars, roundVars, settings, reference_date, raw_events, arg_blocks,
                   week_start, week_end, hours_filled, storeVars, schedulerVars>>

SpecGroup == GroupInit /\ [][GroupCall]_vars

SameActivity(a, b) ==
    /\ DateOf(a.start) = DateOf(b.start)
    /\ a.source = b.source
    /\ a.description = b.description

\* the input blocks of arg_blocks[i]'s activity, in input order
ActivityOf(i) == SelectSeq(arg_blocks, LAMBDA b : SameActivity(b, arg_blocks[i]))

\* C17: with grouping enabled every set of blocks sharing (date of start, source,
\* description) comes out as one block of that source and description, from the
\* earliest member start to that start plus the sum of the members' durations, a set
\* of one as the block itself; the output is sorted by start and its total hours are
\* the input's.  With grouping disabled the input list comes back unchanged.
C17_GroupsSameActivities ==
    pc = "returned" =>
        IF settings.group_same_activities
        THEN /\ Len(time_blocks) = Cardinality({ActivityOf(i) : i \in DOMAIN arg_blocks})
             /\ \A i \in DOMAIN arg_blocks :
                   LET members == ActivityOf(i) IN
                   \E k \in DOMAIN time_blocks :
                      /\ SameActivity(time_blocks[k], arg_blocks[i])
                      /\ \A j \in DOMAIN members : DtLe(time_blocks[k].start, members[j].start)
                      /\ \E j \in DOMAIN members : time_blocks[k].start = members[j].start
                      /\ time_blocks[k].end
                            = DtAdd(time_blocks[k].start, calculate_week_hours(members))
                      /\ Len(members) = 1 => time_blocks[k] = arg_blocks[i]
             /\ \A k \in 1..(Len(time_blocks) - 1) :
                   DtLe(time_blocks[k].start, time_blocks[k + 1].start)
             /\ calculate_week_hours(time_blocks) = calculate_week_hours(arg_blocks)
        ELSE time_blocks = arg_blocks

\* two blocks of one activity that do not touch become one block whose length is the
\* sum of theirs, ahead of a block of another activity
C17_Witness ==
    /\ pc = "returned"
    /\ settings.group_same_activities
    /\ Len(arg_blocks) = 3
    /\ SameActivity(arg_blocks[1], arg_blocks[3])
    /\ ~SameActivity(arg_blocks[1], arg_blocks[2])
    /\ DtLt(arg_blocks[3].end, arg_blocks[1].start)
    /\ Len(time_blocks) = 2
    /\ time_blocks[1].start = arg_blocks[3].start
    /\ DtLt(time_blocks[1].end, arg_blocks[1].end)

\* the blocks auto_fill_to_target appended, its hours_to_fill and its topic
FillOf == SubSeq(time_blocks, Len(arg_blocks) + 1, Len(time_blocks))

FillTopic == determine_fill_up_topic(arg_blocks, settings)

Filled(distribution) ==
    pc = "returned" /\ BelowTarget /\ settings.fill_up_distribution = distribution

\* C18: distribution empty_slots produces the very block end_of_week produces for the
\* same hours to fill, week_start, week_end and topic.
C18_EmptySlotsAsEndOfWeek ==
    Filled("empty_slots") =>
        FillOf = create_fill_up_blocks(hours_filled, week_start, week_end, FillTopic,
                                       [settings EXCEPT !.fill_up_distribution = "end_of_week"])

Noon(dt) == Dt(DateOf(dt) * MinutesPerDay + 12 * MinutesPerHour)

\* C19: distribution end_of_week produces exactly one block, of source auto_fill
\* (priority 0) and description "Development: " + topic, that starts at 12:00 on the
\* calendar day of week_end - 6 hours and ends hours_to_fill later.
C19_EndOfWeekBlock ==
    Filled("end_of_week") =>
        /\ Len(FillOf) = 1
        /\ FillOf[1].source = "auto_fill"
        /\ Priority(FillOf[1]) = 0
        /\ FillOf[1].description = <<"Development: ">> \o FillTopic
        /\ FillOf[1].start = Noon(DtSub(week_end, TdMinutes(6 * MinutesPerHour)))
        /\ FillOf[1].end = DtAdd(FillOf[1].start, hours_filled)

\* week_end Saturday 18:00, 1.5 h tracked, target 40: the block starts Saturday 12:00
\* and spans 38.5 h
C19_Witness ==
    /\ Filled("end_of_week")
    /\ week_end = Dt(5 * MinutesPerDay + 18 * MinutesPerHour)
    /\ hours_filled = TdMinutes(38 * MinutesPerHour + 30)
    /\ FillOf[1].start = Dt(5 * MinutesPerDay + 12 * MinutesPerHour)
    /\ Duration(FillOf[1]) = TdMinutes(38 * MinutesPerHour + 30)

\* the number of days week_start, week_start + 1 day, ... before week_end
WindowDays ==
    CHOOSE n \in 1..DaysPerWeek :
        /\ DtLt(DtAdd(week_start, TdMinutes((n - 1) * MinutesPerDay)), week_end)
        /\ DtLe(week_end, DtAdd(week_start, TdMinutes(n * MinutesPerDay)))

\* C20: distribution distributed produces one auto_fill block per day of
\* [week_start, week_end), each starting at 17:00 of its day, all of one length, and
\* the lengths add up to hours_to_fill.
C20_DistributedPerDay ==
    Filled("distributed") =>
        /\ Len(FillOf) = WindowDays
        /\ \A i \in DOMAIN FillOf :
              /\ FillOf[i].source = "auto_fill"
              /\ FillOf[i].start
                    = Dt((DateOf(week_start) + i - 1) * MinutesPerDay + 17 * MinutesPerHour)
              /\ Duration(FillOf[i]) = Duration(FillOf[1])
        /\ calculate_week_hours(FillOf) = hours_filled

----------------------------------------------------------------------------
(* get_or_create_week_summary as the store sees it: one request for the     *)
(* lookup and one for the write, with the requests of other runs in between *)

MaxCalls == 3

UpsertWeeks == {Dt(18 * MinutesPerHour), Dt(7 * MinutesPerDay + 18 * MinutesPerHour)}

UpsertTotals == {TdMinutes(38 * MinutesPerHour), TdMinutes(40 * MinutesPerHour)}

\* the writes that have reached the store so far
Writes(calls) == Cardinality({c \in DOMAIN calls : calls[c].written # 0})

\* update_week_summary: a run reaches its summary step and calls the client
SummaryCall ==
    /\ Len(summary_calls) < MaxCalls
    /\ \E start \in UpsertWeeks, total \in UpsertTotals :
          summary_calls' = Append(summary_calls,
              [week_start |-> start, total_hours |-> total,
               metadata |-> SummaryMetadata(start, DtAdd(start, TdMinutes(5 * MinutesPerDay)), TdZero),
               pc |-> "lookup", record |-> 0, written |-> 0])
    /\ UNCHANGED <<pc, settings, reference_date, raw_events, arg_blocks, time_blocks,
                   week_start, week_end, hours_filled, storeVars, schedulerVars, roundVars,
                   threadVars>>

\* line 437: get_first_list_item answers with the first record of the week,
\* with status 404 (line 447) when there is none, or with another error (raise)
SummaryLookup(c) ==
    /\ summary_calls[c].pc = "lookup"
    /\ LET i == FirstSummary(summary_store, IsoFormat(summary_calls[c].week_start), 1) IN
       \/ summary_calls' = [summary_calls EXCEPT ![c].record = i,
                               ![c].pc = IF i # 0 THEN "update" ELSE "create"]
       \/ summary_calls' = [summary_calls EXCEPT ![c].pc = "raised"]
    /\ UNCHANGED <<pc, settings, reference_date, raw_events, arg_blocks, time_blocks,
                   week_start, week_end, hours_filled, storeVars, schedulerVars, roundVars,
                   threadVars>>

\* lines 439-446: update(record.id, total_hours, metadata)
SummaryUpdate(c) ==
    /\ summary_calls[c].pc = "update"
    /\ \/ /\ summary_store' = [summary_store EXCEPT
                 ![summary_calls[c].record].total_hours = summary_calls[c].total_hours,
                 ![summary_calls[c].record].metadata = summary_calls[c].metadata]
          /\ summary_calls' = [summary_calls EXCEPT ![c].pc = "returned",
                                  ![c].written = Writes(summary_calls) + 1]
       \/ /\ summary_calls' = [summary_calls EXCEPT ![c].pc = "raised"]
          /\ UNCHANGED summary_store
    /\ UNCHANGED <<pc, settings, reference_date, raw_events, arg_blocks, time_blocks,
                   week_start, week_end, hours_filled, raw_store, block_store, before_store,
                   result, save_index, run_count, schedulerVars, roundVars, threadVars>>

\* lines 449-456: create(week_start, total_hours, metadata)
SummaryCreate(c) ==
    /\ summary_calls[c].pc = "create"
    /\ \/ /\ summary_store' = Append(summary_store,
                 [week_start |-> IsoFormat(summary_calls[c].week_start),
                  total_hours |-> summary_calls[c].total_hours,
                  metadata |-> summary_calls[c].metadata])
          /\ summary_calls' = [summary_calls EXCEPT ![c].pc = "returned",
                                  ![c].written = Writes(summary_calls) + 1]
       \/ /\ summary_calls' = [summary_calls EXCEPT ![c].pc = "raised"]
          /\ UNCHANGED summary_store
    /\ UNCHANGED <<pc, settings, reference_date, raw_events, arg_blocks, time_blocks,
                   week_start, week_end, hours_filled, raw_store, block_store, before_store,
                   result, save_index, run_count, schedulerVars, roundVars, threadVars>>

UpsertInit ==
    /\ pc = "idle"
    /\ settings = DefaultSettings
    /\ CallIdle
    /\ StoreIdle
    /\ SchedulerIdle
    /\ RoundIdle
    /\ ClientIdle
    /\ ThreadIdle

UpsertNext ==
    \/ SummaryCall
    \/ \E c \in DOMAIN summary_calls : SummaryLookup(c)
    \/ \E c \in DOMAIN summary_calls : SummaryUpdate(c)
    \/ \E c \in DOMAIN summary_calls : SummaryCreate(c)

SpecUpsert == UpsertInit /\ [][UpsertNext]_vars

\* the call that wrote the week's summary last
LastWriter(iso) ==
    CHOOSE c \in DOMAIN summary_calls :
        /\ summary_calls[c].written # 0
        /\ IsoFormat(summary_calls[c].week_start) = iso
        /\ \A d \in DOMAIN summary_calls :
              (summary_calls[d].written # 0 /\ IsoFormat(summary_calls[d].week_start) = iso)
                  => summary_calls[d].written <= summary_calls[c].written

\* C21: whatever the interleaving of the runs' store calls, the week-summary store
\* holds at most one record per week_start, and that record carries the total_hours
\* of the run that wrote it last
C21_OneSummaryPerWeek ==
    /\ \A i, j \in DOMAIN summary_store :
          summary_store[i].week_start = summary_store[j].week_start => i = j
    /\ \A i \in DOMAIN summary_store :
          summary_store[i].total_hours
              = summary_calls[LastWriter(summary_store[i].week_start)].total_hours

----------------------------------------------------------------------------
(* persistence of the blocks, on SpecWeek *)

\* the records of the blocks the run has saved so far
SavedRecords == [i \in 1..save_index |-> BlockRecord(time_blocks[i], week_start)]

IsPrefix(s, t) == Len(s) <= Len(t) /\ SubSeq(t, 1, Len(s)) = s

\* C22: block persistence is purely additive: no step of process_week updates or
\* deletes a time-block record, and the store is always the store as it was before
\* the run followed by one new record per block saved, so a successful run over a
\* week already processed leaves a further copy of each of the week's blocks.
C22_PersistenceAdditive ==
    /\ [](pc # "idle" => block_store = before_store.blocks \o SavedRecords)
    /\ [](pc = "done" => save_index = Len(time_blocks))
    /\ [][IsPrefix(block_store, block_store')]_vars

\* a second successful run over the same events: the store holds every block of the
\* week twice, the auto-fill block included
C22_Witness ==
    /\ pc = "done"
    /\ run_count = 2
    /\ Len(SavedRecords) >= 2
    /\ \E i \in DOMAIN SavedRecords : SavedRecords[i].source = "auto_fill"
    /\ block_store = SavedRecords \o SavedRecords

----------------------------------------------------------------------------
(* the weekly fill-up job at the instant its cron trigger fires *)

\* scheduler.py 107-124: CronTrigger(day_of_week, hour, minute) of the settings,
\* here its fire time in the second week
CronFire(s) ==
    Dt((DaysPerWeek + day_map[s.work_week_start_day]) * MinutesPerDay
           + TimeMinutes(s.work_week_start_time))

\* the time from the fire time to the datetime.now() of process_week
FireLatencies == {TdZero, [m |-> 0, us |-> 250000], [m |-> 2, us |-> 0]}

OneWeek == TdMinutes(DaysPerWeek * MinutesPerDay)

\* an event of the week that ended when the trigger fired
CompletedWeekEvent(s) ==
    RawEvent("wakatime", Timestamp("datetime", TRUE,
                 DtAdd(DtSub(CronFire(s), OneWeek), TdMinutes(MinutesPerHour))),
             65, <<"Coding">>)

FillupInit ==
    /\ pc = "call"
    /\ settings \in
          {[DefaultSettings EXCEPT !.work_week_start_day = d, !.work_week_start_time = t] :
              d \in DayNames, t \in StartTimes}
    /\ \E latency \in FireLatencies : reference_date = DtAdd(CronFire(settings), latency)
    /\ raw_store \in {<<>>, <<CompletedWeekEvent(settings)>>}
    /\ raw_events = <<>>
    /\ arg_blocks = <<>>
    /\ time_blocks = <<>>
    /\ week_start = None
    /\ week_end = None
    /\ hours_filled = None
    /\ block_store = <<>>
    /\ summary_store = <<>>
    /\ before_store = NoStore
    /\ result = None
    /\ save_index = 0
    /\ run_count = 0
    /\ SchedulerIdle
    /\ ClientIdle
    /\ ThreadIdle
    /\ RoundIdle

\* _monday_fillup_job, which has no await: lock, process_week() on now, release
MondayFillupJob ==
    /\ pc = "call"
    /\ LET r == acquire(job_locks, "monday_fillup") IN
       IF ~r.acquired
       THEN /\ pc' = "skipped"
            /\ UNCHANGED <<job_locks, block_store, summary_store, result, run_count>>
       ELSE /\ \E failure \in IOFailures :
                  LET run == process_week(reference_date, settings, raw_store, block_store,
                                          summary_store, failure)
                  IN  /\ block_store' = run.blocks
                      /\ summary_store' = run.summaries
                      /\ result' = run.result
            /\ run_count' = run_count + 1
            /\ job_locks' = release(r.locks, "monday_fillup")
            /\ pc' = "returned"
    /\ UNCHANGED <<settings, reference_date, raw_events, arg_blocks, time_blocks,
                   week_start, week_end, hours_filled, raw_store, before_store,
                   save_index, invocations, roundVars, clientVars, threadVars>>

SpecFillup == FillupInit /\ [][MondayFillupJob]_vars

\* C23: the weekly fill-up job, fired on work_week_start_day at work_week_start_time,
\* processes the work week just completed: the week of its result and of the records
\* it writes starts seven days before the trigger's fire time.
C23_FillupProcessesCompletedWeek ==
    (pc = "returned" /\ result.success) =>
        /\ result.week_start = DtSub(CronFire(settings), OneWeek)
        /\ \A i \in DOMAIN block_store :
              block_store[i].week_start = IsoFormat(DtSub(CronFire(settings), OneWeek))

\* what the job does: the week it processes starts at the trigger's fire time
FillupProcessesStartingWeek ==
    (pc = "returned" /\ result.success) =>
        /\ result.week_start = CronFire(settings)
        /\ result.raw_events_count = 0

----------------------------------------------------------------------------
(* JobLock called from several threads: the interpreter may switch threads  *)
(* between the membership test, the store of the new Lock, the lookup and   *)
(* Lock.acquire                                                             *)

MaxThreads == 3

AcquireCall(job) == [job |-> job, pc |-> "check", lock |-> 0, returned |-> FALSE]

\* a thread calls job_lock.acquire(job_name)
ThreadCall(job) ==
    /\ Len(acquire_calls) < MaxThreads
    /\ acquire_calls' = Append(acquire_calls, AcquireCall(job))
    /\ UNCHANGED <<pc, settings, reference_date, raw_events, arg_blocks, time_blocks,
                   week_start, week_end, hours_filled, storeVars, schedulerVars, roundVars,
                   clientVars, lock_table, lock_objects>>

\* line 43: `if job_name not in self._locks`
AcquireCheck(t) ==
    /\ acquire_calls[t].pc = "check"
    /\ acquire_calls' = [acquire_calls EXCEPT ![t].pc =
           IF acquire_calls[t].job \notin DOMAIN lock_table THEN "create" ELSE "lookup"]
    /\ UNCHANGED <<pc, settings, reference_date, raw_events, arg_blocks, time_blocks,
                   week_start, week_end, hours_filled, storeVars, schedulerVars, roundVars,
                   clientVars, lock_table, lock_objects>>

\* line 44: `self._locks[job_name] = Lock()`, a new unlocked Lock
AcquireCreate(t) ==
    /\ acquire_calls[t].pc = "create"
    /\ lock_objects' = Append(lock_objects, FALSE)
    /\ lock_table' = (acquire_calls[t].job :> Len(lock_objects) + 1) @@ lock_table
    /\ acquire_calls' = [acquire_calls EXCEPT ![t].pc = "lookup"]
    /\ UNCHANGED <<pc, settings, reference_date, raw_events, arg_blocks, time_blocks,
                   week_start, week_end, hours_filled, storeVars, schedulerVars, roundVars,
                   clientVars>>

\* line 46: `self._locks[job_name]`
AcquireLookup(t) ==
    /\ acquire_calls[t].pc = "lookup"
    /\ acquire_calls' = [acquire_calls EXCEPT ![t].lock = lock_table[acquire_calls[t].job],
                                              ![t].pc = "try"]
    /\ UNCHANGED <<pc, settings, reference_date, raw_events, arg_blocks, time_blocks,
                   week_start, week_end, hours_filled, storeVars, schedulerVars, roundVars,
                   clientVars, lock_table, lock_objects>>

\* line 46: `.acquire(blocking=False)`, atomic on the Lock, and the return
AcquireTry(t) ==
    /\ acquire_calls[t].pc = "try"
    /\ LET lock == acquire_calls[t].lock IN
          /\ acquire_calls' = [acquire_calls EXCEPT ![t].returned = ~lock_objects[lock],
                                                    ![t].pc = "returned"]
          /\ lock_objects' = [lock_objects EXCEPT ![lock] = TRUE]
    /\ UNCHANGED <<pc, settings, reference_date, raw_events, arg_blocks, time_blocks,
                   week_start, week_end, hours_filled, storeVars, schedulerVars, roundVars,
                   clientVars, lock_table>>

\* lines 48-61: the thread that got True calls release(job_name): the Lock now in
\* the table is unlocked (RuntimeError, ignored, when it was not locked)
ThreadRelease(t) ==
    /\ acquire_calls[t].pc = "returned"
    /\ acquire_calls[t].returned
    /\ lock_objects' = IF acquire_calls[t].job \in DOMAIN lock_table
                       THEN [lock_objects EXCEPT ![lock_table[acquire_calls[t].job]] = FALSE]
                       ELSE lock_objects
    /\ acquire_calls' = [acquire_calls EXCEPT ![t].pc = "released"]
    /\ UNCHANGED <<pc, settings, reference_date, raw_events, arg_blocks, time_blocks,
                   week_start, week_end, hours_filled, storeVars, schedulerVars, roundVars,
                   clientVars, lock_table>>

ThreadsInit ==
    /\ pc = "idle"
    /\ settings = DefaultSettings
    /\ CallIdle
    /\ StoreIdle
    /\ SchedulerIdle
    /\ RoundIdle
    /\ ClientIdle
    /\ ThreadIdle

ThreadsNext ==
    \/ \E job \in JobNames : ThreadCall(job)
    \/ \E t \in DOMAIN acquire_calls : AcquireCheck(t)
    \/ \E t \in DOMAIN acquire_calls : AcquireCreate(t)
    \/ \E t \in DOMAIN acquire_calls : AcquireLookup(t)
    \/ \E t \in DOMAIN acquire_calls : AcquireTry(t)
    \/ \E t \in DOMAIN acquire_calls : ThreadRelease(t)

SpecThreads == ThreadsInit /\ [][ThreadsNext]_vars

\* the calls for the job that returned True and have not been followed by release
Holders(job) ==
    {t \in DOMAIN acquire_calls :
        /\ acquire_calls[t].job = job
        /\ acquire_calls[t].pc = "returned"
        /\ acquire_calls[t].returned}

\* C24: when threads call acquire for the same job name concurrently, the first
\* acquire for the name included, at most one of the calls has returned True and
\* not yet been followed by release for that name.
C24_AcquireThreadSafe ==
    \A job \in JobNames : Cardinality(Holders(job)) <= 1

----------------------------------------------------------------------------
(* ties and dominant blocks under the priority strategy, on SpecResolve *)

\* arg_blocks[i] comes before arg_blocks[j] in the stable sort by start of two
\* blocks of equal priority
SortsBefore(i, j) ==
    \/ DtLt(arg_blocks[i].start, arg_blocks[j].start)
    \/ arg_blocks[i].start = arg_blocks[j].start /\ i < j

\* no third input block overlaps arg_blocks[i] or arg_blocks[j]
OverlapOnlyEachOther(i, j) ==
    \A k \in DOMAIN arg_blocks \ {i, j} :
        /\ ~overlaps_with(arg_blocks[k], arg_blocks[i])
        /\ ~overlaps_with(arg_blocks[k], arg_blocks[j])

\* C25: of two overlapping input blocks of equal priority that no other block
\* overlaps, the priority strategy returns exactly the one that comes first in the
\* stable sort by start (the earlier start, or the earlier input position when the
\* starts are equal): the accepted block is never displaced by the candidate.
C25_TieKeepsFirst ==
    Returned("priority") =>
        \A i, j \in DOMAIN arg_blocks :
            (/\ i # j
             /\ Priority(arg_blocks[i]) = Priority(arg_blocks[j])
             /\ overlaps_with(arg_blocks[i], arg_blocks[j])
             /\ OverlapOnlyEachOther(i, j)
             /\ SortsBefore(i, j))
            => /\ Occurrences(time_blocks, arg_blocks[i]) = 1
               /\ arg_blocks[j] # arg_blocks[i] => Occurrences(time_blocks, arg_blocks[j]) = 0

\* a github and a cloud_events block with the same start overlap, the cloud_events
\* block is first in the input and is the one returned, beside a third block
C25_Witness ==
    /\ Returned("priority")
    /\ Len(arg_blocks) = 3
    /\ Len(time_blocks) = 2
    /\ \E i, j \in DOMAIN arg_blocks :
          /\ i < j
          /\ arg_blocks[i].source = "cloud_events"
          /\ arg_blocks[j].source = "github"
          /\ arg_blocks[i].start = arg_blocks[j].start
          /\ overlaps_with(arg_blocks[i], arg_blocks[j])
          /\ OverlapOnlyEachOther(i, j)
          /\ Occurrences(time_blocks, arg_blocks[i]) = 1
          /\ Occurrences(time_blocks, arg_blocks[j]) = 0

\* arg_blocks[i] has a priority strictly greater than every other input block it
\* overlaps
Dominant(i) ==
    \A k \in DOMAIN arg_blocks \ {i} :
        overlaps_with(arg_blocks[i], arg_blocks[k])
            => Priority(arg_blocks[i]) > Priority(arg_blocks[k])

\* C27: under the priority strategy an input block whose priority is strictly
\* greater than that of every other input block it overlaps is in the output,
\* unaltered (same start, end, source and description).
C27_DominantBlockKept ==
    Returned("priority") =>
        \A i \in DOMAIN arg_blocks :
            Dominant(i) => \E n \in DOMAIN time_blocks : time_blocks[n] = arg_blocks[i]

\* a block that overlaps two blocks of lower priority, one accepted before it, has
\* taken that block's place and is the only block returned
C27_Witness ==
    /\ Returned("priority")
    /\ Len(arg_blocks) = 3
    /\ \E i \in DOMAIN arg_blocks :
          /\ Dominant(i)
          /\ \A k \in DOMAIN arg_blocks \ {i} : overlaps_with(arg_blocks[i], arg_blocks[k])
          /\ \E k \in DOMAIN arg_blocks : DtLt(arg_blocks[k].start, arg_blocks[i].start)
          /\ time_blocks = <<arg_blocks[i]>>

\* C26: when persisting a block of the run fails there is no rollback: the blocks
\* written before it stay in the time-block store, the run has ended (no further
\* block is written), the week summaries are as before the run, and the result has
\* success = false.
C26_PartialSaveStays ==
    (pc = "failed" /\ result.error = ErrCreate) =>
        /\ save_index < Len(time_blocks)
        /\ block_store = before_store.blocks \o SavedRecords
        /\ summary_store = before_store.summaries
        /\ result.success = FALSE

\* the second block of a second run failed: the first block's record was added to
\* the records and the summary of the first run
C26_Witness ==
    /\ pc = "failed"
    /\ result.error = ErrCreate
    /\ run_count = 2
    /\ save_index = 1
    /\ Len(time_blocks) = 2
    /\ before_store.blocks # <<>>
    /\ Len(block_store) = Len(before_store.blocks) + 1
    /\ summary_store = before_store.summaries
    /\ Len(summary_store) = 1

\* the blocks of the run that come from real events
RealBlocks == SelectSeq(time_blocks, LAMBDA b : b.source # "auto_fill")

\* C28: with overlap strategy priority and group_same_activities enabled, the blocks
\* from real events that process_week persists (those it holds from the grouping step
\* on, auto-fill blocks aside) are pairwise non-overlapping.
C28_GroupedBlocksDisjoint ==
    (/\ pc \in {"autofill", "save", "done"}
     /\ settings.overlap_handling = "priority"
     /\ settings.group_same_activities)
    => NoTwoOverlap(RealBlocks)

\* C29: every auto-fill block lies inside the work week it fills: whatever the
\* distribution and the hours to fill, week_start <= block.start and
\* block.end <= week_end for each synthetic block.
C29_FillInsideWeek ==
    (pc = "returned" /\ BelowTarget) =>
        \A i \in DOMAIN FillOf :
            /\ DtLe(week_start, FillOf[i].start)
            /\ DtLe(FillOf[i].end, week_end)

----------------------------------------------------------------------------
(* release of the job lock, on SpecSched *)

\* some invocation of the job is in the job body
Running(job) ==
    \E i \in DOMAIN invocations : invocations[i].job = job /\ InBody(invocations[i])

\* C30: an invocation that acquired its job lock releases it when its body ends,
\* normally or by an exception: a job's lock is held only while an invocation of the
\* job is in its body, it is free once that invocation has ended, and an invocation
\* that tries the lock while no instance of its job is running acquires it and is
\* not skipped.
C30_LockReleasedAtEnd ==
    /\ [](\A job \in JobNames : LockHeld(job_locks, job) => Running(job))
    /\ [][\A i \in DOMAIN invocations :
             /\ (InBody(invocations[i]) /\ invocations'[i].pc = "ended")
                   => ~LockHeld(job_locks', invocations[i].job)
             /\ (invocations[i].pc = "acquire" /\ invocations'[i].pc # "acquire"
                     /\ ~Running(invocations[i].job))
                   => (/\ invocations'[i].pc = BodyStart(invocations[i].job)
                       /\ LockHeld(job_locks', invocations[i].job))]_vars

\* a fetch_and_process invocation ended by an exception of its fetch step (no week
\* was processed), and a later one holds the lock and is in its body
C30_Witness ==
    \E i, j \in DOMAIN invocations :
       /\ i < j
       /\ invocations[i].job = "fetch_and_process"
       /\ invocations[j].job = "fetch_and_process"
       /\ invocations[i].pc = "ended"
       /\ invocations[j].pc = "fetch"
       /\ run_count = 0
       /\ LockHeld(job_locks, "fetch_and_process")

====
